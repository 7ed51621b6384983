--------------------------- MODULE Relayers_proofs ---------------------------
(***************************************************************************)
(* What is proved of the two relayers that are processes of their own.     *)
(* The Rust relayer: what it brings to the rollup survives                 *)
(* reorganisations, for chains of any height, any number of                *)
(* reorganisations, restarts and transactions in flight.  The vault        *)
(* relayer: what the copies of its state file say, for any number of       *)
(* chains, of overlapping polls, of blocks, deposits and restarts.         *)
(***************************************************************************)
EXTENDS RustRelayer, VaultRelayer, ObscuraBridge_proofs

Blocks == [hash : EthBlocks, deposit : DepositChoices \cup {NoDeposit}]
Events == [deposit_id : 0 .. MaxHeight, amount : DepositAmounts,
           obscura_recipient : Recipients, block_hash : EthBlocks]

\* A block's hash is its height and the number of reorganisations before it.
ChainPart ==
    /\ chain \in Seq(Blocks) /\ Len(chain) <= MaxHeight
    /\ finalized \in 0 .. Len(chain)
    /\ reorgs \in 0 .. MaxReorgs
    /\ \A h \in 1 .. Len(chain) : chain[h].hash[1] = h /\ chain[h].hash[2] <= reorgs

\* What was read from a block is true of that block as long as it is on the
\* chain, and a block that was dropped never comes back.
Seen(log) ==
    /\ log.block_hash[2] <= reorgs
    /\ log.block_hash[2] = reorgs => log.block_hash[1] <= Len(chain)
    /\ \A h \in 1 .. Len(chain) :
          chain[h].hash = log.block_hash => chain[h].deposit # NoDeposit /\ event(h) = log

log_of(inputs) ==
    [deposit_id |-> inputs.deposit_id, amount |-> inputs.amount,
     obscura_recipient |-> inputs.obscura_recipient, block_hash |-> inputs.eth_block_hash]

\* A head update names a finalized block.
NamesFinal(inputs) ==
    /\ inputs.new_slot \in 1 .. finalized
    /\ inputs.new_beacon_root = chain[inputs.new_slot].hash
    /\ inputs.execution_block_hash = chain[inputs.new_slot].hash

TxOk(tx) ==
    /\ tx.call = "claim" => tx.inputs \in ClaimInputs /\ Seen(log_of(tx.inputs))
    /\ tx.call = "helios" => tx.inputs \in HeliosInputs /\ NamesFinal(tx.inputs)

NetPart == \A tx \in net : TxOk(tx)

\* What the relayer holds between two awaits.
HeldPart ==
    /\ logs \in Seq(Events)
    /\ \A i \in 1 .. Len(logs) : Seen(logs[i])
    /\ rpc = "submit_claim" => logs # << >>
    /\ head \in [root : BeaconRoots, slot : Nat, new_slot : Nat]
    /\ rpc = "submit_helios_update" => head.new_slot \in 1 .. finalized

HeadPart ==
    /\ trusted_slot \in Nat
    /\ trusted_beacon_root \in BeaconRoots
    /\ finalized_eth_blocks \in [EthBlocks -> Nat]
    /\ HeadIsFinal

RelayInv == ChainPart /\ NetPart /\ HeldPart /\ HeadPart /\ ClaimsSurviveReorgs
-----------------------------------------------------------------------------
\* The blocks of a chain, one by one.
LEMMA BlockFacts ==
    ASSUME ChainPart
    PROVE  /\ Len(chain) \in Nat /\ finalized \in Nat /\ reorgs \in Nat
           /\ \A h \in 1 .. Len(chain) :
                /\ chain[h] \in Blocks /\ chain[h].hash \in EthBlocks
                /\ chain[h].hash = <<h, chain[h].hash[2]>>
<1>1. Len(chain) \in Nat /\ finalized \in Nat /\ reorgs \in Nat
  BY DEF ChainPart
<1>2. ASSUME NEW h \in 1 .. Len(chain)
      PROVE  /\ chain[h] \in Blocks /\ chain[h].hash \in EthBlocks
             /\ chain[h].hash = <<h, chain[h].hash[2]>>
  <2>1. chain[h] \in Blocks
    BY DEF ChainPart
  <2>2. chain[h].hash \in (1 .. MaxHeight) \X (0 .. MaxReorgs)
    BY <2>1, RustRelayerAssumption DEF Blocks
  <2>3. chain[h].hash = <<chain[h].hash[1], chain[h].hash[2]>>
    BY <2>2
  <2>4. chain[h].hash[1] = h
    BY DEF ChainPart
  <2> QED BY <2>1, <2>2, <2>3, <2>4, RustRelayerAssumption
<1> QED BY <1>1, <1>2

\* A deposit's id counts the deposits in the blocks before it.
LEMMA DepositIdType ==
    ASSUME NEW h \in 1 .. MaxHeight
    PROVE  deposit_id(h) \in 0 .. MaxHeight
<1> DEFINE D == {g \in 1 .. h - 1 : chain[g].deposit # NoDeposit}
<1>1. IsFiniteSet(1 .. h - 1) /\ Cardinality(1 .. h - 1) = h - 1
  BY RustRelayerAssumption, FS_Interval
<1>2. D \in SUBSET (1 .. h - 1)
  OBVIOUS
<1> HIDE DEF D
<1>3. IsFiniteSet(D) /\ Cardinality(D) <= h - 1
  BY <1>1, <1>2, FS_Subset
<1>4. Cardinality(D) \in Nat
  BY <1>3, FS_CardinalityType
<1>5. deposit_id(h) = Cardinality(D)
  BY DEF deposit_id, D
<1> QED BY <1>3, <1>4, <1>5, RustRelayerAssumption

LEMMA EventType ==
    ASSUME ChainPart, NEW h \in 1 .. Len(chain), chain[h].deposit # NoDeposit
    PROVE  event(h) \in Events /\ Seen(event(h))
<1>1. h \in 1 .. MaxHeight /\ Len(chain) \in Nat /\ MaxHeight \in Nat
  BY RustRelayerAssumption DEF ChainPart
<1>2. chain[h] \in Blocks /\ chain[h].hash \in EthBlocks
  BY BlockFacts
<1>3. chain[h].deposit \in [amount : DepositAmounts, recipient : Recipients]
  BY <1>2, GenesisAssumption DEF Blocks
<1>4. event(h) \in Events
  BY <1>1, <1>2, <1>3, DepositIdType DEF event, Events
<1>5. event(h).block_hash = chain[h].hash
  BY DEF event
<1>6. \A g \in 1 .. Len(chain) : chain[g].hash = chain[h].hash => g = h
  BY DEF ChainPart
<1>7. Seen(event(h))
  BY <1>1, <1>5, <1>6 DEF Seen, ChainPart
<1> QED BY <1>4, <1>7

\* g goes through the events of the first n blocks.
IsScan(g, from, to, n) ==
    g = [h \in 0 .. n |-> IF h = 0 THEN << >>
                          ELSE IF from <= h /\ h <= to /\ chain[h].deposit # NoDeposit
                                 THEN Append(g[h - 1], event(h)) ELSE g[h - 1]]

\* The scan is defined, and is a list of events.
LEMMA ScanExists ==
    ASSUME NEW from, NEW to, NEW n \in Nat
    PROVE  \E g : IsScan(g, from, to, n)
<1> DEFINE T == {k \in Nat : \E g : IsScan(g, from, to, k)}
           more(g, h) == IF from <= h /\ h <= to /\ chain[h].deposit # NoDeposit
                           THEN Append(g, event(h)) ELSE g
<1>1. 0 \in T
  <2>1. IsScan([h \in 0 .. 0 |-> << >>], from, to, 0)
    BY DEF IsScan
  <2> QED BY <2>1
<1>2. ASSUME NEW k \in T PROVE k + 1 \in T
  <2>1. PICK g : IsScan(g, from, to, k)
    OBVIOUS
  <2>2. k \in Nat /\ \A h \in 0 .. k : g[h] = IF h = 0 THEN << >> ELSE more(g[h - 1], h)
    BY <2>1 DEF IsScan
  <2> HIDE DEF more
  <2> DEFINE f == [h \in 0 .. k + 1 |-> IF h <= k THEN g[h] ELSE more(g[k], h)]
  <2>3. ASSUME NEW h \in 0 .. k + 1 PROVE f[h] = IF h = 0 THEN << >> ELSE more(f[h - 1], h)
    BY <2>2
  <2>4. f = [h \in 0 .. k + 1 |-> f[h]]
    OBVIOUS
  <2> HIDE DEF f
  <2>5. f = [h \in 0 .. k + 1 |-> IF h = 0 THEN << >> ELSE more(f[h - 1], h)]
    BY <2>3, <2>4
  <2>6. IsScan(f, from, to, k + 1)
    BY <2>5 DEF IsScan, more
  <2>7. k + 1 \in Nat
    BY <2>2
  <2> QED BY <2>6, <2>7
<1> HIDE DEF T
<1>3. n \in T
  BY <1>1, <1>2, SetInduction DEF T
<1> QED BY <1>3 DEF T

\* The logs of a scan are events of blocks on the chain.
LEMMA ScanFacts ==
    ASSUME ChainPart, NEW from, NEW to
    PROVE  /\ get_deposit_events(from, to) \in Seq(Events)
           /\ \A i \in 1 .. Len(get_deposit_events(from, to)) : Seen(get_deposit_events(from, to)[i])
<1> DEFINE n == Len(chain)
           Good == {log \in Events : Seen(log)}
<1>1. n \in Nat
  BY BlockFacts
<1>2. PICK g : IsScan(g, from, to, n) /\ get_deposit_events(from, to) = g[n]
  <2>1. get_deposit_events(from, to) = (CHOOSE g : IsScan(g, from, to, n))[n]
    BY DEF get_deposit_events, IsScan
  <2>2. \E g : IsScan(g, from, to, n)
    BY <1>1, ScanExists
  <2> QED BY <2>1, <2>2
<1> DEFINE T == {k \in Nat : k <= n => g[k] \in Seq(Good)}
<1>3. 0 \in T
  BY <1>1, <1>2 DEF IsScan
<1>4. ASSUME NEW k \in T PROVE k + 1 \in T
  <2> SUFFICES ASSUME k + 1 <= n PROVE g[k + 1] \in Seq(Good)
    OBVIOUS
  <2>1. k \in Nat /\ k + 1 \in 0 .. n /\ k + 1 \in 1 .. n /\ k + 1 # 0 /\ (k + 1) - 1 = k
    BY <1>1
  <2>2. g[k] \in Seq(Good)
    BY <2>1, <1>1
  <2>3. \/ g[k + 1] = g[k]
        \/ chain[k + 1].deposit # NoDeposit /\ g[k + 1] = Append(g[k], event(k + 1))
    BY <2>1, <1>2 DEF IsScan
  <2>4. chain[k + 1].deposit # NoDeposit => event(k + 1) \in Good
    BY <2>1, EventType
  <2> HIDE DEF Good, T
  <2>5. ASSUME NEW S, NEW s \in Seq(S), NEW e \in S PROVE Append(s, e) \in Seq(S)
    OBVIOUS
  <2>6. CASE g[k + 1] = g[k]
    BY <2>2, <2>6
  <2>7. CASE chain[k + 1].deposit # NoDeposit /\ g[k + 1] = Append(g[k], event(k + 1))
    <3>1. event(k + 1) \in Good
      BY <2>4, <2>7
    <3>2. Append(g[k], event(k + 1)) \in Seq(Good)
      BY <2>2, <2>5, <3>1
    <3> QED BY <3>2, <2>7
  <2> QED BY <2>3, <2>6, <2>7
<1> HIDE DEF T
<1>5. n \in T
  BY <1>1, <1>3, <1>4, SetInduction DEF T
<1>6. g[n] \in Seq(Good)
  BY <1>1, <1>5 DEF T
<1>7. g[n] \in Seq(Events) /\ \A i \in 1 .. Len(g[n]) : Seen(g[n][i])
  BY <1>6
<1> QED BY <1>2, <1>7
-----------------------------------------------------------------------------
\* How the chain may move: blocks that stay are as they were, finalized
\* blocks stay, and a block is new in its reorganisation.
ChainMoves ==
    /\ ChainPart'
    /\ finalized <= finalized'
    /\ reorgs <= reorgs'
    /\ reorgs' = reorgs => Len(chain) <= Len(chain')
    /\ \A h \in 1 .. Len(chain') : h <= Len(chain) => chain'[h] = chain[h]
    /\ \A h \in 1 .. Len(chain') : h > Len(chain) => chain'[h].hash[2] = reorgs

LEMMA MineMoves ==
    ASSUME ChainPart, NEW d \in DepositChoices \cup {NoDeposit}, Mine(d)
    PROVE  ChainMoves
<1> DEFINE n == Len(chain)  b == [hash |-> <<n + 1, reorgs>>, deposit |-> d]
<1>1. n \in Nat /\ n < MaxHeight /\ chain' = Append(chain, b) /\ UNCHANGED <<finalized, reorgs>>
  BY BlockFacts DEF Mine
<1>2. b \in Blocks /\ b.hash[1] = n + 1 /\ b.hash[2] = reorgs
  BY <1>1, RustRelayerAssumption DEF Blocks, ChainPart
<1> HIDE DEF b
<1>3. /\ chain' \in Seq(Blocks) /\ Len(chain') = n + 1
      /\ \A h \in 1 .. n : chain'[h] = chain[h]
      /\ chain'[n + 1] = b
  BY <1>1, <1>2 DEF ChainPart
<1>4. reorgs \in Nat /\ finalized \in 0 .. n /\ MaxHeight \in Nat /\ reorgs \in 0 .. MaxReorgs
  BY BlockFacts, RustRelayerAssumption DEF ChainPart
<1>5. \A h \in 1 .. n + 1 : chain'[h].hash[1] = h /\ chain'[h].hash[2] <= reorgs
  <2> SUFFICES ASSUME NEW h \in 1 .. n + 1
               PROVE  chain'[h].hash[1] = h /\ chain'[h].hash[2] <= reorgs
    OBVIOUS
  <2>1. CASE h = n + 1
    BY <2>1, <1>2, <1>3, <1>4
  <2>2. CASE h \in 1 .. n
    BY <2>2, <1>3 DEF ChainPart
  <2> QED BY <2>1, <2>2, <1>1
<1>6. ChainPart'
  BY <1>1, <1>3, <1>4, <1>5 DEF ChainPart, Blocks
<1>7. \A h \in 1 .. n + 1 : (h <= n => chain'[h] = chain[h]) /\ (h > n => chain'[h].hash[2] = reorgs)
  BY <1>1, <1>2, <1>3
<1> QED BY <1>1, <1>3, <1>4, <1>6, <1>7 DEF ChainMoves

LEMMA FinalizeMoves ==
    ASSUME ChainPart, Finalize
    PROVE  ChainMoves
<1>1. /\ finalized < Len(chain) /\ finalized' = finalized + 1 /\ chain' = chain /\ reorgs' = reorgs
      /\ Len(chain) \in Nat /\ finalized \in Nat /\ reorgs \in Nat
  BY BlockFacts DEF Finalize
<1>2. ChainPart'
  BY <1>1 DEF ChainPart
<1>3. \A h \in 1 .. Len(chain') : ~ (h > Len(chain))
  BY <1>1
<1> QED BY <1>1, <1>2, <1>3 DEF ChainMoves

LEMMA ReorgMoves ==
    ASSUME ChainPart, NEW h \in 1 .. MaxHeight, Reorg(h)
    PROVE  ChainMoves
<1> DEFINE n == Len(chain)
<1>1. /\ finalized < h /\ h <= n /\ reorgs < MaxReorgs
      /\ chain' = SubSeq(chain, 1, h - 1) /\ reorgs' = reorgs + 1 /\ finalized' = finalized
      /\ n \in Nat /\ finalized \in Nat /\ reorgs \in Nat /\ h \in Nat /\ MaxReorgs \in Nat
  BY BlockFacts, RustRelayerAssumption DEF Reorg
<1>2. /\ chain' \in Seq(Blocks) /\ Len(chain') = h - 1
      /\ \A g \in 1 .. h - 1 : chain'[g] = chain[g]
  BY <1>1 DEF ChainPart
<1>3. \A g \in 1 .. h - 1 : chain'[g].hash[1] = g /\ chain'[g].hash[2] <= reorgs'
  <2> SUFFICES ASSUME NEW g \in 1 .. h - 1
               PROVE  chain'[g].hash[1] = g /\ chain'[g].hash[2] <= reorgs'
    OBVIOUS
  <2>1. g \in 1 .. n /\ chain'[g] = chain[g]
    BY <1>1, <1>2
  <2>2. chain[g].hash[1] = g /\ chain[g].hash[2] <= reorgs
    BY <2>1 DEF ChainPart
  <2>3. chain[g].hash[2] \in Nat
    BY <2>1, BlockFacts, RustRelayerAssumption
  <2> QED BY <2>1, <2>2, <2>3, <1>1
<1>4. ChainPart'
  <2>1. finalized' \in 0 .. h - 1 /\ h - 1 <= MaxHeight /\ reorgs' \in 0 .. MaxReorgs
    BY <1>1, RustRelayerAssumption
  <2> QED BY <1>2, <1>3, <2>1 DEF ChainPart, Blocks
<1>5. \A g \in 1 .. h - 1 : ~ (g > n)
  BY <1>1
<1> QED BY <1>1, <1>2, <1>4, <1>5 DEF ChainMoves

\* An event is what it was while the blocks up to it are.
LEMMA EventStays ==
    ASSUME NEW h \in Nat, \A g \in 1 .. h : chain'[g] = chain[g], h \in 1 .. h
    PROVE  event(h)' = event(h)
<1>1. \A g \in 1 .. h - 1 : chain'[g] = chain[g]
  OBVIOUS
<1>2. {g \in 1 .. h - 1 : chain'[g].deposit # NoDeposit} = {g \in 1 .. h - 1 : chain[g].deposit # NoDeposit}
  BY <1>1
<1>3. deposit_id(h)' = deposit_id(h)
  BY <1>2 DEF deposit_id
<1> QED BY <1>3 DEF event

\* What was seen in a block stays so.
LEMMA SeenStays ==
    ASSUME ChainPart, ChainMoves, NEW log, log.block_hash \in EthBlocks, Seen(log)
    PROVE  Seen(log)'
<1>1. /\ Len(chain) \in Nat /\ reorgs \in Nat /\ Len(chain') \in Nat /\ reorgs' \in Nat
  BY DEF ChainMoves, ChainPart
<1>2. log.block_hash[1] \in Nat /\ log.block_hash[2] \in Nat
  BY RustRelayerAssumption
<1>3. log.block_hash[2] <= reorgs' /\ (log.block_hash[2] = reorgs' => log.block_hash[1] <= Len(chain'))
  BY <1>1, <1>2 DEF Seen, ChainMoves
<1>4. ASSUME NEW h \in 1 .. Len(chain'), chain'[h].hash = log.block_hash
      PROVE  chain'[h].deposit # NoDeposit /\ event(h)' = log
  <2>1. h <= Len(chain)
    <3> SUFFICES ASSUME h > Len(chain) PROVE FALSE
      BY <1>1
    <3>1. log.block_hash[2] = reorgs /\ log.block_hash[1] = h
      BY <1>4 DEF ChainMoves, ChainPart
    <3> QED BY <3>1, <1>1 DEF Seen
  <2>2. h \in Nat /\ h \in 1 .. h /\ h \in 1 .. Len(chain) /\ \A g \in 1 .. h : g \in 1 .. Len(chain') /\ g <= Len(chain)
    BY <2>1, <1>1
  <2>3. \A g \in 1 .. h : chain'[g] = chain[g]
    BY <2>2 DEF ChainMoves
  <2>4. event(h)' = event(h)
    BY <2>2, <2>3, EventStays
  <2>5. chain[h].hash = log.block_hash
    BY <2>2, <2>3, <1>4
  <2> QED BY <2>2, <2>3, <2>4, <2>5 DEF Seen
<1> QED BY <1>3, <1>4 DEF Seen

\* Finalized blocks stay, with their events.
LEMMA FinalStays ==
    ASSUME ChainPart, ChainMoves
    PROVE  \A h \in 1 .. finalized : /\ h \in 1 .. finalized'
                                     /\ chain'[h] = chain[h] /\ event(h)' = event(h)
<1> SUFFICES ASSUME NEW h \in 1 .. finalized
             PROVE  /\ h \in 1 .. finalized'
                    /\ chain'[h] = chain[h] /\ event(h)' = event(h)
  OBVIOUS
<1>1. /\ Len(chain) \in Nat /\ Len(chain') \in Nat /\ finalized \in Nat /\ finalized' \in Nat
      /\ finalized <= Len(chain) /\ finalized' <= Len(chain') /\ finalized <= finalized'
  BY DEF ChainMoves, ChainPart
<1>2. h \in Nat /\ h \in 1 .. h /\ \A g \in 1 .. h : g \in 1 .. Len(chain') /\ g <= Len(chain)
  BY <1>1
<1>3. \A g \in 1 .. h : chain'[g] = chain[g]
  BY <1>2 DEF ChainMoves
<1>4. event(h)' = event(h)
  BY <1>2, <1>3, EventStays
<1> QED BY <1>1, <1>2, <1>3, <1>4

\* A step of the chain alone.
LEMMA ChainStepInv ==
    ASSUME RelayInv, ChainMoves, UNCHANGED <<rollupVars, net, relayerVars>>
    PROVE  RelayInv'
<1>1. ChainPart /\ NetPart /\ HeldPart /\ HeadPart /\ ClaimsSurviveReorgs
  BY DEF RelayInv
<1>2. /\ \A h \in 1 .. finalized : /\ h \in 1 .. finalized'
                                   /\ chain'[h] = chain[h] /\ event(h)' = event(h)
  BY <1>1, FinalStays
<1>3. finalized \in Nat /\ finalized' \in Nat /\ finalized <= finalized'
  BY <1>1 DEF ChainMoves, ChainPart
<1>4. NetPart'
  <2> SUFFICES ASSUME NEW tx \in net PROVE TxOk(tx)'
    BY DEF NetPart
  <2>1. TxOk(tx)
    BY <1>1 DEF NetPart
  <2>2. ASSUME tx.call = "claim" PROVE Seen(log_of(tx.inputs))'
    <3>1. tx.inputs \in ClaimInputs /\ Seen(log_of(tx.inputs))
      BY <2>1, <2>2 DEF TxOk
    <3>2. log_of(tx.inputs).block_hash \in EthBlocks
      BY <3>1 DEF log_of, ClaimInputs
    <3> QED BY <3>1, <3>2, <1>1, SeenStays
  <2>3. ASSUME tx.call = "helios" PROVE NamesFinal(tx.inputs)'
    BY <2>1, <2>3, <1>2 DEF TxOk, NamesFinal
  <2> QED BY <2>1, <2>2, <2>3 DEF TxOk
<1>5. HeldPart'
  <2>1. UNCHANGED <<logs, rpc, head>>
    BY DEF relayerVars
  <2>2. ASSUME NEW i \in 1 .. Len(logs) PROVE Seen(logs[i])'
    <3>1. Seen(logs[i]) /\ logs[i].block_hash \in EthBlocks /\ logs' = logs
      <4>1. Seen(logs[i]) /\ logs \in Seq(Events)
        BY <1>1 DEF HeldPart
      <4>2. logs[i] \in Events
        BY <4>1
      <4> QED BY <4>1, <4>2, <2>1 DEF Events
    <3>2. ASSUME NEW x, x.block_hash \in EthBlocks, Seen(x) PROVE Seen(x)'
      BY <3>2, <1>1, SeenStays
    <3> QED BY <3>1, <3>2 DEF Seen
  <2>3. rpc = "submit_helios_update" => head.new_slot \in 1 .. finalized'
    BY <1>1, <1>2 DEF HeldPart
  <2> QED BY <1>1, <2>1, <2>2, <2>3 DEF HeldPart
<1>6. HeadPart'
  <2>1. UNCHANGED <<trusted_slot, trusted_beacon_root, finalized_eth_blocks>>
    BY DEF rollupVars, bridgeVars, heliosVars
  <2>2. HeadIsFinal'
    BY <2>1, <1>1, <1>2, <1>3 DEF HeadPart, HeadIsFinal
  <2> QED BY <1>1, <2>1, <2>2 DEF HeadPart
<1>7. ClaimsSurviveReorgs'
  <2>1. claims' = claims
    BY DEF rollupVars, bridgeVars, claimVars
  <2> QED BY <2>1, <1>1, <1>2 DEF ClaimsSurviveReorgs
<1> QED BY <1>4, <1>5, <1>6, <1>7 DEF RelayInv, ChainMoves
-----------------------------------------------------------------------------
\* While the chain is as it was, so is what was seen of it.
LEMMA ChainSame ==
    ASSUME UNCHANGED chainVars
    PROVE  /\ ChainPart => ChainPart'
           /\ \A h : event(h)' = event(h)
<1>1. UNCHANGED <<chain, finalized, reorgs>>
  BY DEF chainVars
<1>2. ChainPart => ChainPart'
  BY <1>1 DEF ChainPart
<1>3. ASSUME NEW h PROVE event(h)' = event(h)
  <2>1. deposit_id(h)' = deposit_id(h)
    BY <1>1 DEF deposit_id
  <2> QED BY <1>1, <2>1 DEF event
<1> QED BY <1>2, <1>3

LEMMA SeenSame ==
    ASSUME UNCHANGED chainVars, NEW log, Seen(log)
    PROVE  Seen(log)'
<1>1. UNCHANGED <<chain, finalized, reorgs>>
  BY DEF chainVars
<1> QED BY <1>1, ChainSame DEF Seen

LEMMA TxSame ==
    ASSUME UNCHANGED chainVars, NEW tx, TxOk(tx)
    PROVE  TxOk(tx)'
<1>1. UNCHANGED <<chain, finalized, reorgs>>
  BY DEF chainVars
<1>2. ASSUME tx.call = "claim" PROVE tx.inputs \in ClaimInputs /\ Seen(log_of(tx.inputs))'
  BY <1>2, SeenSame DEF TxOk
<1>3. ASSUME tx.call = "helios" PROVE tx.inputs \in HeliosInputs /\ NamesFinal(tx.inputs)'
  BY <1>1, <1>3 DEF TxOk, NamesFinal
<1> QED BY <1>2, <1>3 DEF TxOk

\* A head update that names a finalized block.
LEMMA HeliosExecuted ==
    ASSUME RelayInv, UNCHANGED chainVars, NEW inputs \in HeliosInputs, NamesFinal(inputs),
           handle_update_helios_head("OBShelios", inputs)
    PROVE  HeadPart' /\ ClaimsSurviveReorgs' /\ BridgeNext
<1>1. UNCHANGED <<chain, finalized, reorgs>>
  BY DEF chainVars
<1>2. /\ trusted_beacon_root' = inputs.new_beacon_root
      /\ trusted_slot' = inputs.new_slot
      /\ finalized_eth_blocks' = [finalized_eth_blocks EXCEPT ![inputs.execution_block_hash] = inputs.new_slot]
      /\ claims' = claims
  BY DEF handle_update_helios_head, claimVars
<1>3. /\ inputs.new_slot \in 1 .. finalized /\ inputs.new_beacon_root = chain[inputs.new_slot].hash
      /\ inputs.execution_block_hash = chain[inputs.new_slot].hash
  BY DEF NamesFinal
<1>4. HeadPart /\ ChainPart /\ finalized \in Nat
  BY DEF RelayInv, ChainPart
<1>5. inputs.new_beacon_root \in BeaconRoots /\ inputs.execution_block_hash \in EthBlocks
      /\ inputs.new_slot \in Nat /\ inputs.new_slot <= finalized
  BY <1>3, <1>4 DEF HeliosInputs
<1>6. finalized_eth_blocks' \in [EthBlocks -> Nat]
  BY <1>2, <1>4, <1>5 DEF HeadPart
<1>7. ASSUME NEW b \in EthBlocks, finalized_eth_blocks'[b] # 0
      PROVE  finalized_eth_blocks'[b] <= finalized /\ chain[finalized_eth_blocks'[b]].hash = b
  <2>1. CASE b = inputs.execution_block_hash
    BY <2>1, <1>2, <1>3, <1>4, <1>5 DEF HeadPart
  <2>2. CASE b # inputs.execution_block_hash
    <3>1. finalized_eth_blocks'[b] = finalized_eth_blocks[b]
      BY <2>2, <1>2, <1>4 DEF HeadPart
    <3> QED BY <3>1, <1>4, <1>7 DEF HeadPart, HeadIsFinal
  <2> QED BY <2>1, <2>2
<1>8. HeadIsFinal'
  BY <1>1, <1>2, <1>3, <1>5, <1>7 DEF HeadIsFinal
<1>9. HeadPart'
  BY <1>2, <1>5, <1>6, <1>8 DEF HeadPart
<1>10. ClaimsSurviveReorgs'
  BY <1>1, <1>2, ChainSame DEF RelayInv, ClaimsSurviveReorgs
<1>11. BridgeNext
  BY DEF BridgeNext, UpdateHeliosHead, HeliosProofs
<1> QED BY <1>9, <1>10, <1>11

\* A claim for a deposit that was seen: if the rollup takes its block for
\* final then the block is on the chain, and the deposit is as seen.
LEMMA ClaimExecuted ==
    ASSUME RelayInv, UNCHANGED chainVars, NEW inputs \in ClaimInputs, Seen(log_of(inputs)),
           handle_claim_deposit("OBSbridge", inputs)
    PROVE  HeadPart' /\ ClaimsSurviveReorgs' /\ BridgeNext
<1> DEFINE log == log_of(inputs)
           claim == [deposit_id |-> inputs.deposit_id, amount |-> inputs.amount,
                     commitment |-> inputs.obscura_recipient, leaf |-> tree.next_index + 1,
                     eth_block |-> inputs.eth_block_hash, helios |-> trusted_slot > 0]
<1>1. UNCHANGED <<chain, finalized, reorgs>>
  BY DEF chainVars
<1>2. /\ block_accepted(inputs.eth_block_hash)
      /\ claims' = claims \cup {claim}
      /\ UNCHANGED <<trusted_beacon_root, trusted_slot, finalized_eth_blocks>>
  BY DEF handle_claim_deposit, heliosVars
<1>3. HeadPart /\ ChainPart /\ finalized \in Nat /\ Len(chain) \in Nat /\ finalized <= Len(chain)
  BY DEF RelayInv, ChainPart
<1>4. HeadPart'
  BY <1>1, <1>2, <1>3 DEF HeadPart, HeadIsFinal
<1>5. /\ claim.deposit_id = inputs.deposit_id /\ claim.amount = inputs.amount
      /\ claim.commitment = inputs.obscura_recipient /\ claim.eth_block = inputs.eth_block_hash
      /\ claim.helios = (trusted_slot > 0)
  OBVIOUS
<1> HIDE DEF claim
<1>6. ASSUME claim.helios
      PROVE  \E h \in 1 .. finalized :
                /\ chain[h].hash = claim.eth_block /\ chain[h].deposit # NoDeposit
                /\ event(h) = [deposit_id |-> claim.deposit_id, amount |-> claim.amount,
                               obscura_recipient |-> claim.commitment, block_hash |-> claim.eth_block]
  <2> DEFINE b == inputs.eth_block_hash  h == finalized_eth_blocks[b]
  <2>1. b \in EthBlocks
    BY DEF ClaimInputs
  <2>2. h # 0
    BY <1>2, <1>5, <1>6 DEF block_accepted
  <2>3. h \in Nat /\ h <= finalized /\ chain[h].hash = b
    BY <2>1, <2>2, <1>3 DEF HeadPart, HeadIsFinal
  <2>4. h \in 1 .. finalized /\ h \in 1 .. Len(chain)
    BY <2>2, <2>3, <1>3
  <2>5. log.block_hash = b
    BY DEF log_of
  <2>6. chain[h].deposit # NoDeposit /\ event(h) = log
    BY <2>3, <2>4, <2>5 DEF Seen
  <2>7. log = [deposit_id |-> claim.deposit_id, amount |-> claim.amount,
               obscura_recipient |-> claim.commitment, block_hash |-> claim.eth_block]
    BY <1>5 DEF log_of
  <2> QED BY <2>3, <2>4, <2>6, <2>7, <1>5
<1>7. ClaimsSurviveReorgs'
  <2> SUFFICES ASSUME NEW c \in claims', c.helios
               PROVE  \E h \in 1 .. finalized :
                        /\ chain[h].hash = c.eth_block /\ chain[h].deposit # NoDeposit
                        /\ event(h) = [deposit_id |-> c.deposit_id, amount |-> c.amount,
                                       obscura_recipient |-> c.commitment, block_hash |-> c.eth_block]
    BY <1>1, ChainSame DEF ClaimsSurviveReorgs
  <2>1. CASE c = claim
    BY <2>1, <1>6
  <2>2. CASE c \in claims
    BY <2>2 DEF RelayInv, ClaimsSurviveReorgs
  <2> QED BY <2>1, <2>2, <1>2
<1>8. BridgeNext
  BY DEF BridgeNext, ClaimDeposit, BridgeProofs
<1> QED BY <1>4, <1>7, <1>8

LEMMA ExecuteInv ==
    ASSUME RelayInv, UNCHANGED chainVars, NEW tx, TxOk(tx), Execute(tx)
    PROVE  HeadPart' /\ ClaimsSurviveReorgs' /\ BridgeNext
<1>1. CASE tx.call = "helios" /\ handle_update_helios_head("OBShelios", tx.inputs)
  BY <1>1, HeliosExecuted DEF TxOk
<1>2. CASE tx.call = "claim" /\ handle_claim_deposit("OBSbridge", tx.inputs)
  BY <1>2, ClaimExecuted DEF TxOk
<1> QED BY <1>1, <1>2 DEF Execute

\* Steps that leave the rollup alone keep what is known of it.
LEMMA RollupSame ==
    ASSUME RelayInv, UNCHANGED chainVars, UNCHANGED rollupVars
    PROVE  HeadPart' /\ ClaimsSurviveReorgs'
<1>1. /\ UNCHANGED <<chain, finalized, reorgs, claims>>
      /\ UNCHANGED <<trusted_beacon_root, trusted_slot, finalized_eth_blocks>>
  BY DEF chainVars, rollupVars, bridgeVars, claimVars, heliosVars
<1>2. HeadPart'
  BY <1>1 DEF RelayInv, HeadPart, HeadIsFinal
<1>3. ClaimsSurviveReorgs'
  BY <1>1, ChainSame DEF RelayInv, ClaimsSurviveReorgs
<1> QED BY <1>2, <1>3

LEMMA NetSame ==
    ASSUME RelayInv, UNCHANGED chainVars, net' \subseteq net
    PROVE  NetPart'
<1> SUFFICES ASSUME NEW tx \in net' PROVE TxOk(tx)'
  BY DEF NetPart
<1> QED BY TxSame DEF RelayInv, NetPart

LEMMA SendInv ==
    ASSUME RelayInv, UNCHANGED chainVars, NEW tx, TxOk(tx), Send(tx)
    PROVE  /\ NetPart' /\ HeadPart' /\ ClaimsSurviveReorgs'
           /\ BridgeNext \/ UNCHANGED rollupVars
<1>1. CASE Execute(tx) /\ UNCHANGED net
  BY <1>1, ExecuteInv, NetSame
<1>2. CASE net' = net \cup {tx} /\ UNCHANGED rollupVars
  <2>1. NetPart'
    <3> SUFFICES ASSUME NEW t \in net' PROVE TxOk(t)'
      BY DEF NetPart
    <3>1. TxOk(t)
      BY <1>2 DEF RelayInv, NetPart
    <3> QED BY <3>1, TxSame
  <2> QED BY <1>2, <2>1, RollupSame
<1>3. CASE UNCHANGED <<net, rollupVars>>
  BY <1>3, RollupSame, NetSame
<1> QED BY <1>1, <1>2, <1>3 DEF Send
-----------------------------------------------------------------------------
\* What is held after a step that moves logs, head and rpc.
LEMMA HeldSame ==
    ASSUME RelayInv, UNCHANGED chainVars,
           logs' = logs \/ logs' = << >> \/ (logs # << >> /\ logs' = Tail(logs)),
           rpc' = "submit_claim" => logs' # << >>,
           head' \in [root : BeaconRoots, slot : Nat, new_slot : Nat],
           rpc' = "submit_helios_update" => head'.new_slot \in 1 .. finalized
    PROVE  HeldPart'
<1>1. logs \in Seq(Events) /\ \A i \in 1 .. Len(logs) : Seen(logs[i])
  BY DEF RelayInv, HeldPart
<1>2. UNCHANGED <<chain, finalized, reorgs>>
  BY DEF chainVars
<1>3. logs' \in Seq(Events) /\ \A i \in 1 .. Len(logs') : \E j \in 1 .. Len(logs) : logs'[i] = logs[j]
  <2>1. CASE logs' = logs
    BY <2>1, <1>1
  <2>2. CASE logs' = << >>
    BY <2>2
  <2>3. CASE logs # << >> /\ logs' = Tail(logs)
    <3>1. /\ Tail(logs) \in Seq(Events) /\ Len(Tail(logs)) = Len(logs) - 1 /\ Len(logs) \in Nat
          /\ \A i \in 1 .. Len(logs) - 1 : Tail(logs)[i] = logs[i + 1]
      BY <1>1, <2>3
    <3>2. \A i \in 1 .. Len(logs) - 1 : i + 1 \in 1 .. Len(logs)
      BY <3>1
    <3> QED BY <3>1, <3>2, <2>3
  <2> QED BY <2>1, <2>2, <2>3
<1>4. ASSUME NEW i \in 1 .. Len(logs') PROVE Seen(logs[i])'
  <2>1. PICK j \in 1 .. Len(logs) : logs'[i] = logs[j]
    BY <1>3
  <2>2. Seen(logs[j])
    BY <1>1
  <2>3. Seen(logs'[i])
    BY <2>1, <2>2
  <2>4. ASSUME NEW x, Seen(x) PROVE Seen(x)'
    BY <2>4, SeenSame
  <2> QED BY <2>3, <1>2, ChainSame DEF Seen
<1> QED BY <1>2, <1>3, <1>4 DEF HeldPart

\* Steps of the relayer that submit nothing.
QuietStep ==
    \/ get_latest_block \/ ScanFails \/ GetDepositEvents
    \/ GetHeliosState \/ GetFinalityUpdate \/ FinalityUpdateFails
    \/ SkipProcessed \/ get_storage_proof \/ StorageProofFails \/ EndScan \/ Restart

LEMMA QuietHeld ==
    ASSUME RelayInv, QuietStep
    PROVE  HeldPart' /\ UNCHANGED <<chainVars, net, rollupVars>>
<1>1. UNCHANGED <<chainVars, net, rollupVars>>
  BY DEF QuietStep, get_latest_block, ScanFails, GetDepositEvents, GetHeliosState, GetFinalityUpdate,
         FinalityUpdateFails, SkipProcessed, get_storage_proof, StorageProofFails, EndScan, Restart
<1>2. /\ head \in [root : BeaconRoots, slot : Nat, new_slot : Nat] /\ ChainPart /\ finalized \in Nat
      /\ rpc = "submit_claim" => logs # << >>
  BY DEF RelayInv, HeldPart, ChainPart
<1>3. CASE get_latest_block
  <2>1. logs' = logs /\ head' = head /\ rpc' \in {"get_latest_block", "get_deposit_events"}
    BY <1>3 DEF get_latest_block, ScanOk
  <2> QED BY <2>1, <1>1, <1>2, HeldSame
<1>4. CASE ScanFails \/ FinalityUpdateFails \/ EndScan
  <2>1. logs' = logs /\ head' = head /\ rpc' \in {"get_latest_block", "relay"}
    BY <1>4 DEF ScanFails, FinalityUpdateFails, EndScan, ScanOk, HeliosDone
  <2> QED BY <2>1, <1>1, <1>2, HeldSame
<1>5. CASE GetDepositEvents
  <2>1. /\ logs' = get_deposit_events(from_block, latest) /\ head' = head
        /\ rpc' \in {"get_helios_state", "relay"}
    BY <1>5 DEF GetDepositEvents
  <2>2. logs' \in Seq(Events) /\ \A i \in 1 .. Len(logs') : Seen(logs'[i])
    BY <2>1, <1>2, ScanFacts
  <2>3. UNCHANGED <<chain, finalized, reorgs>>
    BY <1>1 DEF chainVars
  <2>4. ASSUME NEW i \in 1 .. Len(logs') PROVE Seen(logs[i])'
    BY <2>2, <2>3, <1>1, ChainSame DEF Seen
  <2> QED BY <2>1, <2>2, <2>4, <1>1, <1>2 DEF HeldPart
<1>6. CASE GetHeliosState
  <2>1. logs' = logs /\ head' \in {get_helios_state, NoHead} /\ rpc' = "get_finality_update"
    BY <1>6 DEF GetHeliosState
  <2>2. head' \in [root : BeaconRoots, slot : Nat, new_slot : Nat]
    BY <2>1, GenesisAssumption DEF get_helios_state, NoHead, RelayInv, HeadPart
  <2> QED BY <2>1, <2>2, <1>1, HeldSame
<1>7. CASE GetFinalityUpdate
  <2>1. /\ logs' = logs /\ head' = [head EXCEPT !.new_slot = finalized]
        /\ rpc' = "relay" \/ (rpc' = "submit_helios_update" /\ ~ (finalized <= head.slot))
    BY <1>7 DEF GetFinalityUpdate, finalized_slot, HeliosDone
  <2>2. head' \in [root : BeaconRoots, slot : Nat, new_slot : Nat] /\ head'.new_slot = finalized
    BY <2>1, <1>2
  <2>3. ~ (finalized <= head.slot) => finalized \in 1 .. finalized
    <3>1. head.slot \in Nat
      BY <1>2
    <3> QED BY <3>1, <1>2
  <2>4. /\ rpc' = "submit_helios_update" => head'.new_slot \in 1 .. finalized
        /\ rpc' # "submit_claim"
    BY <2>1, <2>2, <2>3
  <2> QED BY <2>1, <2>2, <2>4, <1>1, HeldSame
<1>8. CASE SkipProcessed \/ StorageProofFails
  <2>1. logs # << >> /\ logs' = Tail(logs) /\ head' = head /\ rpc' = "relay"
    BY <1>8 DEF SkipProcessed, StorageProofFails
  <2> QED BY <2>1, <1>1, <1>2, HeldSame
<1>9. CASE get_storage_proof
  <2>1. logs # << >> /\ logs' = logs /\ head' = head /\ rpc' = "submit_claim"
    BY <1>9 DEF get_storage_proof
  <2> QED BY <2>1, <1>1, <1>2, HeldSame
<1>10. CASE Restart
  <2>1. logs' = << >> /\ head' = NoHead /\ rpc' = "get_latest_block"
    BY <1>10 DEF Restart
  <2>2. head' \in [root : BeaconRoots, slot : Nat, new_slot : Nat]
    BY <2>1, GenesisAssumption DEF NoHead
  <2> QED BY <2>1, <2>2, <1>1, HeldSame
<1> QED BY <1>1, <1>3, <1>4, <1>5, <1>6, <1>7, <1>8, <1>9, <1>10 DEF QuietStep

\* The relayer submits what it holds.
LEMMA SubmitInv ==
    ASSUME RelayInv, NEW ok \in BOOLEAN, SubmitHeliosUpdate(ok) \/ SubmitClaim(ok)
    PROVE  /\ RelayInv'
           /\ BridgeNext \/ UNCHANGED rollupVars
<1>1. ChainPart /\ HeldPart /\ UNCHANGED chainVars
  BY DEF RelayInv, SubmitHeliosUpdate, SubmitClaim
<1>2. ChainPart'
  BY <1>1, ChainSame
<1>3. CASE SubmitHeliosUpdate(ok)
  <2> DEFINE h == head.new_slot
             inputs == [prev_trusted_root |-> head.root, new_beacon_root |-> chain[h].hash,
                        new_slot |-> h, execution_block_hash |-> chain[h].hash]
             tx == [call |-> "helios", inputs |-> inputs]
  <2>1. /\ rpc = "submit_helios_update" /\ Send(tx) /\ rpc' = "relay"
        /\ logs' = logs /\ head' = head
    BY <1>3 DEF SubmitHeliosUpdate, HeliosDone
  <2>2. h \in 1 .. finalized /\ head.root \in BeaconRoots
    BY <2>1, <1>1 DEF HeldPart
  <2>3. h \in 1 .. MaxHeight /\ h \in 1 .. Len(chain) /\ chain[h].hash \in EthBlocks
    <3>1. h \in 1 .. MaxHeight /\ h \in 1 .. Len(chain)
      BY <2>2, <1>1, RustRelayerAssumption DEF ChainPart
    <3> QED BY <3>1, <1>1, BlockFacts
  <2>4. inputs \in HeliosInputs /\ NamesFinal(inputs)
    BY <2>2, <2>3, GenesisAssumption DEF HeliosInputs, NamesFinal
  <2>5. tx.call = "helios" /\ tx.inputs = inputs
    OBVIOUS
  <2> HIDE DEF inputs, tx
  <2>6. TxOk(tx)
    BY <2>4, <2>5 DEF TxOk
  <2>7. NetPart' /\ HeadPart' /\ ClaimsSurviveReorgs' /\ (BridgeNext \/ UNCHANGED rollupVars)
    BY <1>1, <2>1, <2>6, SendInv
  <2>8. HeldPart'
    BY <1>1, <2>1, HeldSame DEF HeldPart
  <2> QED BY <1>2, <2>7, <2>8 DEF RelayInv
<1>4. CASE SubmitClaim(ok)
  <2> DEFINE log == Head(logs)
             inputs == [deposit_id |-> log.deposit_id, amount |-> log.amount,
                        obscura_recipient |-> log.obscura_recipient,
                        bridge_contract |-> BridgeContract, eth_block_hash |-> log.block_hash]
             tx == [call |-> "claim", inputs |-> inputs]
  <2>1. /\ rpc = "submit_claim" /\ Send(tx) /\ rpc' = "relay"
        /\ logs' = Tail(logs) /\ head' = head
    BY <1>4 DEF SubmitClaim
  <2>2. logs # << >> /\ logs \in Seq(Events)
    BY <2>1, <1>1 DEF HeldPart
  <2>3. 1 \in 1 .. Len(logs) /\ log = logs[1]
    BY <2>2
  <2>4. log \in Events /\ Seen(log)
    BY <2>2, <2>3, <1>1 DEF HeldPart
  <2> HIDE DEF log
  <2>5. /\ log.deposit_id \in DepositIds /\ log.amount \in DepositAmounts
        /\ log.obscura_recipient \in Recipients /\ log.block_hash \in EthBlocks
        /\ log = [deposit_id |-> log.deposit_id, amount |-> log.amount,
                  obscura_recipient |-> log.obscura_recipient, block_hash |-> log.block_hash]
    BY <2>4, GenesisAssumption DEF Events
  <2>6. inputs \in ClaimInputs /\ log_of(inputs) = log
    BY <2>5, BridgeAssumption DEF ClaimInputs, log_of
  <2>7. tx.call = "claim" /\ tx.inputs = inputs
    OBVIOUS
  <2> HIDE DEF inputs, tx
  <2>8. TxOk(tx)
    BY <2>4, <2>6, <2>7 DEF TxOk
  <2>9. NetPart' /\ HeadPart' /\ ClaimsSurviveReorgs' /\ (BridgeNext \/ UNCHANGED rollupVars)
    BY <1>1, <2>1, <2>8, SendInv
  <2>10. HeldPart'
    BY <1>1, <2>1, <2>2, HeldSame DEF HeldPart
  <2> QED BY <1>2, <2>9, <2>10 DEF RelayInv
<1> QED BY <1>3, <1>4

LEMMA RelayInitInv == RelayInit => RelayInv /\ BridgeInit
<1> SUFFICES ASSUME RelayInit PROVE RelayInv /\ BridgeInit
  OBVIOUS
<1> USE DEF RelayInit
<1>1. ChainPart
  BY RustRelayerAssumption DEF ChainPart
<1>2. NetPart
  BY DEF NetPart
<1>3. HeldPart
  BY GenesisAssumption DEF HeldPart, NoHead
<1>4. HeadPart
  BY GenesisAssumption DEF HeadPart, HeadIsFinal, BridgeInit
<1>5. ClaimsSurviveReorgs
  BY DEF ClaimsSurviveReorgs, BridgeInit
<1> QED BY <1>1, <1>2, <1>3, <1>4, <1>5 DEF RelayInv

LEMMA RelayNextInv ==
    ASSUME RelayInv, [RelayNext]_relayVars
    PROVE  RelayInv' /\ [BridgeNext]_rollupVars
<1>0. ChainPart
  BY DEF RelayInv
<1>1. ASSUME ChainMoves, UNCHANGED <<rollupVars, net, relayerVars>>
      PROVE  RelayInv' /\ [BridgeNext]_rollupVars
  BY <1>1, ChainStepInv
<1>2. CASE \E d \in DepositChoices \cup {NoDeposit} : Mine(d)
  BY <1>0, <1>1, <1>2, MineMoves DEF Mine
<1>3. CASE Finalize
  BY <1>0, <1>1, <1>3, FinalizeMoves DEF Finalize
<1>4. CASE \E h \in 1 .. MaxHeight : Reorg(h)
  BY <1>0, <1>1, <1>4, ReorgMoves DEF Reorg
<1>5. CASE QuietStep
  <2>1. HeldPart' /\ UNCHANGED <<chainVars, net, rollupVars>>
    BY <1>5, QuietHeld
  <2>2. ChainPart' /\ NetPart' /\ HeadPart' /\ ClaimsSurviveReorgs'
    BY <2>1, <1>0, ChainSame, NetSame, RollupSame
  <2> QED BY <2>1, <2>2 DEF RelayInv
<1>6. CASE \E ok \in BOOLEAN : SubmitHeliosUpdate(ok) \/ SubmitClaim(ok)
  BY <1>6, SubmitInv
<1>7. CASE \E tx \in net : LateExecution(tx) \/ Lost(tx)
  <2>1. PICK tx \in net : LateExecution(tx) \/ Lost(tx)
    BY <1>7
  <2>2. TxOk(tx) /\ UNCHANGED chainVars /\ net' \subseteq net /\ UNCHANGED <<rpc, logs, head>>
    BY <2>1 DEF RelayInv, NetPart, LateExecution, Lost, relayerVars
  <2>3. ChainPart' /\ NetPart'
    BY <2>2, <1>0, ChainSame, NetSame
  <2>4. HeldPart'
    <3>1. HeldPart /\ finalized' = finalized
      BY <2>2 DEF RelayInv, chainVars
    <3> QED BY <2>2, <3>1, HeldSame DEF HeldPart
  <2>5. HeadPart' /\ ClaimsSurviveReorgs' /\ [BridgeNext]_rollupVars
    <3>1. CASE LateExecution(tx)
      BY <3>1, <2>2, ExecuteInv DEF LateExecution
    <3>2. CASE Lost(tx)
      BY <3>2, <2>2, RollupSame DEF Lost
    <3> QED BY <2>1, <3>1, <3>2
  <2> QED BY <2>3, <2>4, <2>5 DEF RelayInv
<1>8. CASE UNCHANGED relayVars
  <2>1. UNCHANGED <<chainVars, net, rollupVars, rpc, logs, head>>
    BY <1>8 DEF relayVars, relayerVars
  <2>2. ChainPart' /\ NetPart' /\ HeadPart' /\ ClaimsSurviveReorgs'
    BY <2>1, <1>0, ChainSame, NetSame, RollupSame
  <2>3. HeldPart'
    BY <2>1, HeldSame DEF RelayInv, HeldPart
  <2> QED BY <2>1, <2>2, <2>3 DEF RelayInv
<1> QED BY <1>2, <1>3, <1>4, <1>5, <1>6, <1>7, <1>8 DEF RelayNext, QuietStep

LEMMA RelayInvariant == RelaySpec => []RelayInv
BY RelayInitInv, RelayNextInv, PTL DEF RelaySpec
-----------------------------------------------------------------------------
(***************************************************************************)
(* Between submit_helios_update and handle_update_helios_head, with lost,  *)
(* late and repeated transactions and restarts, every block the rollup     *)
(* takes for final is on the finalized part of the chain.                  *)
(***************************************************************************)
THEOREM HeadAlwaysFinal == RelaySpec => []HeadIsFinal
<1>1. RelayInv => HeadIsFinal
  BY DEF RelayInv, HeadPart
<1> QED BY <1>1, RelayInvariant, PTL

(***************************************************************************)
(* A claim the relayer got accepted with Helios active is for a deposit in *)
(* a finalized block, with its id, amount and recipient, however the chain *)
(* was reorganised between scan_and_relay's reads and its submissions.     *)
(***************************************************************************)
THEOREM ClaimsAlwaysSurvive == RelaySpec => []ClaimsSurviveReorgs
<1>1. RelayInv => ClaimsSurviveReorgs
  BY DEF RelayInv
<1> QED BY <1>1, RelayInvariant, PTL

(***************************************************************************)
(* With the relayer in front of it the rollup still behaves as the bridge  *)
(* module specifies: every step is one of its transactions, or none.  All  *)
(* the bridge guarantees therefore holds here too.                         *)
(***************************************************************************)
THEOREM RelayImplementsBridge == RelaySpec => BridgeSpec
<1>1. RelayInv /\ [RelayNext]_relayVars => [BridgeNext]_rollupVars
  BY RelayNextInv
<1> QED BY <1>1, RelayInitInv, RelayInvariant, PTL DEF RelaySpec, BridgeSpec
-----------------------------------------------------------------------------
(***************************************************************************)
(* The vault relayer.                                                      *)
(***************************************************************************)
\* The positions up to which chain c was scanned since its scan began.
Scanned(c) ==
    {n \in Int : /\ n <= block[c] + 1
                 /\ \A e \in locked :
                       e.chain = c /\ origin[c] <= e.block /\ e.block < n => key(e) \in fetched}

\* What a copy of the file may say.  A chain whose watcher waits for its
\* first position has none in any copy.
GoodFiles ==
    {f \in [processed : SUBSET sent, lastBlock : [Chains -> Int]] :
        \A c \in Chains : /\ f.lastBlock[c] \in Scanned(c)
                          /\ boot[c].at = "init" => f.lastBlock[c] = Missing}

\* A poll of chain c at each of its awaits, and a watcher.
PollOk(c, t) ==
    /\ t.at \in {"idle", "getLogs", "findDestChain", "writeContract"}
    /\ t.at = "getLogs" => t.from \in Scanned(c) /\ t.to \in Int /\ t.to <= block[c]
    /\ t.at \in {"findDestChain", "writeContract"} =>
          /\ DOMAIN t = {"at", "deposit", "copy", "rest", "to"}
          /\ t.to \in Int /\ t.to + 1 \in Scanned(c)
          /\ t.copy \in GoodFiles

BootOk(t) == t = Done \/ (t.at = "init" /\ t.copy \in GoodFiles)

\* The chains, and where their scans began: no later than where a poll that
\* finds no position would begin.
ScanPart ==
    /\ block \in [Chains -> Nat]
    /\ origin \in [Chains -> Int]
    /\ \A e \in locked : e.chain \in Chains /\ e.block \in Nat /\ e.block <= block[e.chain]
    /\ \A c \in Chains : origin[c] <= lower(block[c])

FilePart == file \in GoodFiles

BootPart == DOMAIN boot = Chains /\ \A c \in Chains : BootOk(boot[c])

PollPart ==
    /\ DOMAIN poll = Chains
    /\ \A c \in Chains : DOMAIN poll[c] = Polls(c)
    /\ \A c \in Chains : \A p \in Polls(c) : PollOk(c, poll[c][p])
    /\ \A c \in Chains : \A p \in Polls(c) : boot[c].at = "init" => poll[c][p].at = "idle"

VaultInv == ScanPart /\ FilePart /\ BootPart /\ PollPart
-----------------------------------------------------------------------------
\* The chains move on: blocks are added, with deposits in them, deposits
\* are fetched, and scans begin later, if at all.
Forward ==
    /\ fetched \subseteq fetched'
    /\ \A c \in Chains : origin[c] <= origin'[c] /\ block[c] <= block'[c]
    /\ \A e \in locked' : e \in locked \/ e.block > block[e.chain]

\* What was scanned stays so.
LEMMA ScannedStays ==
    ASSUME ScanPart, ScanPart', Forward, NEW c \in Chains
    PROVE  Scanned(c) \subseteq Scanned(c)'
<1> SUFFICES ASSUME NEW n \in Scanned(c)
             PROVE  n \in Scanned(c)'
  OBVIOUS
<1>1. n \in Int /\ n <= block[c] + 1 /\ block[c] \in Nat /\ block'[c] \in Nat /\ block[c] <= block'[c]
  BY DEF Scanned, ScanPart, Forward
<1>2. ASSUME NEW e \in locked', e.chain = c, origin'[c] <= e.block, e.block < n
      PROVE  key(e) \in fetched'
  <2>1. e.block \in Nat /\ origin[c] \in Int /\ origin'[c] \in Int
    BY <1>2 DEF ScanPart
  <2>2. e \in locked /\ origin[c] <= e.block
    BY <2>1, <1>1, <1>2 DEF Forward
  <2> QED BY <2>2, <1>2 DEF Scanned, Forward
<1>3. n <= block'[c] + 1
  BY <1>1
<1>4. \A e : key(e)' = key(e)
  BY DEF key
<1> QED BY <1>1, <1>2, <1>3, <1>4 DEF Scanned

\* Scans stay, except that of a chain whose watcher has no position yet.
ScansStay ==
    /\ \A c \in Chains : block[c] <= block'[c]
    /\ \A c \in Chains : Scanned(c) \subseteq Scanned(c)' \/ boot[c].at = "init"
    /\ \A c \in Chains : Missing \in Scanned(c)'
    /\ \A c \in Chains : boot[c].at = "init" \/ boot'[c].at # "init"
    /\ sent \subseteq sent'

LEMMA MissingScanned ==
    ASSUME ScanPart', NEW c \in Chains
    PROVE  Missing \in Scanned(c)'
<1>1. \A e \in locked' : e.block \in Nat
  BY DEF ScanPart
<1>2. block'[c] \in Nat
  BY DEF ScanPart
<1>3. Missing \in Int /\ Missing <= block'[c] + 1
  BY <1>2 DEF Missing
<1>4. \A e \in locked' : ~ (e.block < Missing)
  BY <1>1 DEF Missing
<1> QED BY <1>3, <1>4 DEF Scanned

LEMMA FilesStay ==
    ASSUME ScansStay
    PROVE  GoodFiles \subseteq GoodFiles'
<1> SUFFICES ASSUME NEW f \in GoodFiles
             PROVE  f \in GoodFiles'
  OBVIOUS
<1>1. f \in [processed : SUBSET sent', lastBlock : [Chains -> Int]]
  BY DEF GoodFiles, ScansStay
<1>2. ASSUME NEW c \in Chains
      PROVE  f.lastBlock[c] \in Scanned(c)' /\ (boot'[c].at = "init" => f.lastBlock[c] = Missing)
  <2>1. f.lastBlock[c] \in Scanned(c) /\ (boot[c].at = "init" => f.lastBlock[c] = Missing)
    BY DEF GoodFiles
  <2> QED BY <2>1 DEF ScansStay
<1> QED BY <1>1, <1>2 DEF GoodFiles

\* A poll that no step touches stays as it should be.
LEMMA PollStays ==
    ASSUME ScanPart, ScanPart', ScansStay, NEW c \in Chains, NEW t, PollOk(c, t),
           boot[c].at = "init" => t.at = "idle"
    PROVE  PollOk(c, t)'
<1>1. block[c] \in Nat /\ block'[c] \in Nat /\ block[c] <= block'[c]
  BY DEF ScanPart, ScansStay
<1>2. GoodFiles \subseteq GoodFiles'
  BY FilesStay
<1>3. CASE t.at = "idle"
  BY <1>3 DEF PollOk
<1>4. CASE t.at # "idle"
  <2>1. Scanned(c) \subseteq Scanned(c)'
    BY <1>4 DEF ScansStay
  <2> QED BY <2>1, <1>1, <1>2, <1>4 DEF PollOk
<1> QED BY <1>3, <1>4

\* So do the watchers, when a step ends at most some of their waits.
LEMMA BootsStay ==
    ASSUME BootPart, ScansStay, DOMAIN boot' = Chains,
           \A c \in Chains : boot'[c] = boot[c] \/ boot'[c] = Done
    PROVE  BootPart'
<1>1. GoodFiles \subseteq GoodFiles'
  BY FilesStay
<1>2. ASSUME NEW c \in Chains PROVE BootOk(boot[c])'
  BY <1>1 DEF BootPart, BootOk, Done
<1> QED BY <1>2 DEF BootPart

\* A step of one poll leaves the others as they should be.
LEMMA PollsStay ==
    ASSUME ScanPart, PollPart, ScanPart', ScansStay, NEW c \in Chains, NEW p \in Polls(c),
           \E t : poll' = [poll EXCEPT ![c][p] = t],
           PollOk(c, poll[c][p])', boot'[c].at # "init"
    PROVE  PollPart'
<1>1. /\ DOMAIN poll' = Chains
      /\ \A d \in Chains : DOMAIN poll'[d] = Polls(d)
      /\ \A d \in Chains : \A q \in Polls(d) : (d = c /\ q = p) \/ poll'[d][q] = poll[d][q]
  BY DEF PollPart
<1>2. ASSUME NEW d \in Chains, NEW q \in Polls(d)
      PROVE  PollOk(d, poll[d][q])' /\ (boot'[d].at = "init" => poll'[d][q].at = "idle")
  <2>1. CASE d = c /\ q = p
    BY <2>1
  <2>2. CASE ~ (d = c /\ q = p)
    <3> DEFINE t == poll[d][q]
    <3>1. poll'[d][q] = t /\ PollOk(d, t) /\ (boot[d].at = "init" => t.at = "idle")
      BY <2>2, <1>1 DEF PollPart
    <3> HIDE DEF t
    <3>2. \A x : x = t => PollOk(d, x)'
      <4> SUFFICES ASSUME NEW x, x = t PROVE PollOk(d, x)'
        OBVIOUS
      <4> QED BY <3>1, PollStays
    <3>3. PollOk(d, poll[d][q])'
      BY <3>1, <3>2 DEF PollOk
    <3> QED BY <3>1, <3>3 DEF ScansStay
  <2> QED BY <2>1, <2>2
<1> QED BY <1>1, <1>2 DEF PollPart

LEMMA PollsSame ==
    ASSUME ScanPart, PollPart, ScanPart', ScansStay, UNCHANGED poll
    PROVE  PollPart'
<1>1. ASSUME NEW d \in Chains, NEW q \in Polls(d)
      PROVE  PollOk(d, poll[d][q])' /\ (boot'[d].at = "init" => poll'[d][q].at = "idle")
  <2> DEFINE t == poll[d][q]
  <2>1. poll'[d][q] = t /\ PollOk(d, t) /\ (boot[d].at = "init" => t.at = "idle")
    BY DEF PollPart
  <2> HIDE DEF t
  <2>2. \A x : x = t => PollOk(d, x)'
    <3> SUFFICES ASSUME NEW x, x = t PROVE PollOk(d, x)'
      OBVIOUS
    <3> QED BY <2>1, PollStays
  <2>3. PollOk(d, poll[d][q])'
    BY <2>1, <2>2 DEF PollOk
  <2> QED BY <2>1, <2>3 DEF ScansStay
<1> QED BY <1>1 DEF PollPart
-----------------------------------------------------------------------------
LEMMA ForwardScans ==
    ASSUME ScanPart, ScanPart', Forward, sent \subseteq sent',
           \A c \in Chains : boot[c].at = "init" \/ boot'[c].at # "init"
    PROVE  ScansStay
<1>1. \A c \in Chains : Scanned(c) \subseteq Scanned(c)'
  BY ScannedStays
<1>2. ASSUME NEW c \in Chains PROVE Missing \in Scanned(c)'
  BY MissingScanned
<1> QED BY <1>1, <1>2 DEF ScansStay, Forward

LEMMA MineInv ==
    ASSUME VaultInv, NEW c \in Chains, NEW deposit \in BOOLEAN, NewBlock(c, deposit)
    PROVE  VaultInv'
<1>0. ScanPart /\ FilePart /\ BootPart /\ PollPart
  BY DEF VaultInv
<1>1. /\ block' = [block EXCEPT ![c] = block[c] + 1]
      /\ \A e \in locked' : e \in locked \/ (e.chain = c /\ e.block = block[c] + 1)
      /\ UNCHANGED <<file, boot, poll, fetched, sent, origin>>
  BY DEF NewBlock
<1>2. \A d \in Chains : block[d] \in Nat /\ block'[d] \in Nat /\ block[d] <= block'[d]
  BY <1>0, <1>1 DEF ScanPart
<1>3. \A m, n \in Nat : m <= n => lower(m) <= lower(n) /\ lower(m) \in Int /\ lower(n) \in Int
  BY VaultAssumption DEF lower
<1>4. ScanPart'
  <2>1. block' \in [Chains -> Nat] /\ origin' \in [Chains -> Int]
    BY <1>0, <1>1 DEF ScanPart
  <2>2. ASSUME NEW d \in Chains PROVE origin'[d] <= lower(block[d])'
    <3>1. origin'[d] <= lower(block[d]) /\ origin'[d] \in Int
      BY <1>0, <1>1 DEF ScanPart
    <3>2. lower(block[d]) <= lower(block'[d]) /\ lower(block[d]) \in Int /\ lower(block'[d]) \in Int
      BY <1>2, <1>3
    <3>3. origin'[d] <= lower(block'[d])
      BY <3>1, <3>2
    <3> QED BY <3>3 DEF lower
  <2>3. ASSUME NEW e \in locked' PROVE e.chain \in Chains /\ e.block \in Nat /\ e.block <= block'[e.chain]
    <3>1. CASE e \in locked
      BY <3>1, <1>0, <1>2 DEF ScanPart
    <3>2. CASE e.chain = c /\ e.block = block[c] + 1
      BY <3>2, <1>0, <1>1, <1>2 DEF ScanPart
    <3> QED BY <3>1, <3>2, <1>1
  <2> QED BY <2>1, <2>2, <2>3 DEF ScanPart
<1>5. Forward
  <2>1. \A e \in locked' : e \in locked \/ e.block > block[e.chain]
    BY <1>1, <1>2
  <2>2. \A d \in Chains : origin[d] <= origin'[d]
    BY <1>0, <1>1 DEF ScanPart
  <2> QED BY <2>1, <2>2, <1>1, <1>2 DEF Forward
<1>6. ScansStay
  BY <1>0, <1>1, <1>4, <1>5, ForwardScans
<1>7. FilePart'
  BY <1>0, <1>1, <1>6, FilesStay DEF FilePart
<1>8. BootPart'
  BY <1>0, <1>1, <1>6, BootsStay DEF BootPart
<1>9. PollPart'
  BY <1>0, <1>1, <1>4, <1>6, PollsSame
<1> QED BY <1>4, <1>7, <1>8, <1>9 DEF VaultInv

LEMMA BootDoneInv ==
    ASSUME VaultInv, NEW c \in Chains, BootDone(c)
    PROVE  VaultInv'
<1> DEFINE start == IF block[c] > START_WINDOW THEN block[c] - START_WINDOW ELSE 0
           f == boot[c].copy
<1>0. ScanPart /\ FilePart /\ BootPart /\ PollPart
  BY DEF VaultInv
<1>1. /\ boot[c].at = "init"
      /\ file' = [f EXCEPT !.lastBlock[c] = start]
      /\ boot' = [boot EXCEPT ![c] = Done]
      /\ origin' = [origin EXCEPT ![c] = start]
      /\ UNCHANGED <<poll, block, locked, fetched, sent>>
  BY DEF BootDone
<1>2. /\ block[c] \in Nat /\ start \in Int /\ start <= block[c] + 1
      /\ start <= lower(block[c])
  BY <1>0, VaultAssumption DEF ScanPart, lower
<1> HIDE DEF start
<1>3. ScanPart'
  BY <1>0, <1>1, <1>2 DEF ScanPart, lower
<1>4. ScansStay
  <2>1. ASSUME NEW d \in Chains, d # c PROVE Scanned(d) \subseteq Scanned(d)'
    BY <2>1, <1>0, <1>1 DEF Scanned, ScanPart, key
  <2>2. \A d \in Chains : Missing \in Scanned(d)'
    BY <1>3, MissingScanned
  <2>3. \A d \in Chains : boot[d].at = "init" \/ boot'[d].at # "init"
    BY <1>0, <1>1 DEF BootPart
  <2>4. \A d \in Chains : block[d] <= block'[d]
    BY <1>0, <1>1 DEF ScanPart
  <2> QED BY <2>1, <2>2, <2>3, <2>4, <1>1 DEF ScansStay
<1>5. f \in GoodFiles'
  <2>1. f \in GoodFiles
    BY <1>0, <1>1 DEF BootPart, BootOk, Done
  <2> QED BY <2>1, <1>4, FilesStay
<1> HIDE DEF f
<1>6. start \in Scanned(c)'
  BY <1>0, <1>1, <1>2 DEF Scanned, ScanPart
<1>7. boot'[c].at # "init"
  BY <1>0, <1>1 DEF BootPart, Done
<1>8. FilePart'
  BY <1>1, <1>2, <1>5, <1>6, <1>7 DEF FilePart, GoodFiles
<1>9. BootPart'
  BY <1>0, <1>1, <1>4, BootsStay DEF BootPart
<1>10. PollPart'
  BY <1>0, <1>1, <1>3, <1>4, PollsSame
<1> QED BY <1>3, <1>8, <1>9, <1>10 DEF VaultInv

\* What the steps of a poll have in common: the chains do not move.
LEMMA PollStep ==
    ASSUME VaultInv, UNCHANGED <<block, locked, boot>>,
           fetched \subseteq fetched', sent \subseteq sent',
           origin' \in [Chains -> Int],
           \A c \in Chains : origin[c] <= origin'[c] /\ origin'[c] <= lower(block[c])
    PROVE  ScanPart' /\ ScansStay /\ BootPart' /\ GoodFiles \subseteq GoodFiles'
<1>1. ScanPart'
  BY DEF VaultInv, ScanPart, lower
<1>2. Forward
  BY DEF Forward, VaultInv, ScanPart
<1>3. ScansStay
  BY <1>1, <1>2, ForwardScans DEF VaultInv
<1> QED BY <1>1, <1>3, BootsStay, FilesStay DEF VaultInv, BootPart

LEMMA OriginSame ==
    ASSUME VaultInv, UNCHANGED origin
    PROVE  /\ origin' \in [Chains -> Int]
           /\ \A c \in Chains : origin[c] <= origin'[c] /\ origin'[c] <= lower(block[c])
BY DEF VaultInv, ScanPart

LEMMA BeginPollInv ==
    ASSUME VaultInv, NEW c \in Chains, NEW p \in Polls(c), BeginPoll(c, p)
    PROVE  VaultInv'
<1> DEFINE n == block[c]
           from == fromBlock(c)
           to == toBlock(from, n)
<1>0. ScanPart /\ FilePart /\ BootPart /\ PollPart
  BY DEF VaultInv
<1>1. /\ boot[c] = Done
      /\ poll' = [poll EXCEPT ![c][p] = [at |-> "getLogs", from |-> from, to |-> to]]
      /\ origin' = IF file.lastBlock[c] = Missing THEN [origin EXCEPT ![c] = from] ELSE origin
      /\ UNCHANGED <<file, boot, block, locked, fetched, sent>>
  BY DEF BeginPoll
<1>2. n \in Nat /\ lower(n) \in Int /\ lower(n) <= n /\ origin[c] \in Int /\ origin[c] <= lower(n)
  BY <1>0, VaultAssumption DEF ScanPart, lower
<1>3. file.lastBlock[c] \in Int /\ file.lastBlock[c] \in Scanned(c)
  BY <1>0 DEF FilePart, GoodFiles
<1>4. from \in Int /\ from <= n
  BY <1>2, <1>3, VaultAssumption DEF fromBlock
<1>5. to \in Int /\ to <= n
  BY <1>2, <1>4, VaultAssumption DEF toBlock
<1>6. file.lastBlock[c] = Missing => from = lower(n)
  BY <1>2 DEF fromBlock
<1>7. file.lastBlock[c] # Missing => from <= file.lastBlock[c]
  BY <1>2, <1>3, VaultAssumption DEF fromBlock
<1> HIDE DEF from, to
<1>8. /\ origin' \in [Chains -> Int]
      /\ \A d \in Chains : origin[d] <= origin'[d] /\ origin'[d] <= lower(block[d])
  BY <1>0, <1>1, <1>2, <1>4, <1>6 DEF ScanPart
<1>9. ScanPart' /\ ScansStay /\ BootPart' /\ GoodFiles \subseteq GoodFiles'
  BY <1>1, <1>8, PollStep
<1>10. from \in Scanned(c)'
  <2>1. \A e \in locked : e.block \in Nat
    BY <1>0 DEF ScanPart
  <2>2. CASE file.lastBlock[c] = Missing
    <3>1. origin'[c] = from
      BY <1>0, <1>1, <2>2 DEF ScanPart
    <3> QED BY <3>1, <2>1, <1>1, <1>2, <1>4 DEF Scanned
  <2>3. CASE file.lastBlock[c] # Missing
    <3>1. origin' = origin /\ from <= file.lastBlock[c]
      BY <1>1, <1>7, <2>3
    <3> QED BY <3>1, <2>1, <1>1, <1>2, <1>3, <1>4 DEF Scanned, key
  <2> QED BY <2>2, <2>3
<1>11. poll'[c][p] = [at |-> "getLogs", from |-> from, to |-> to]
  BY <1>0, <1>1 DEF PollPart
<1>12. PollOk(c, poll[c][p])'
  BY <1>1, <1>2, <1>5, <1>10, <1>11 DEF PollOk
<1>13. boot'[c].at # "init"
  BY <1>1 DEF Done
<1>14. PollPart'
  BY <1>0, <1>1, <1>9, <1>12, <1>13, PollsStay
<1>15. FilePart'
  BY <1>0, <1>1, <1>9 DEF FilePart
<1> QED BY <1>9, <1>14, <1>15 DEF VaultInv

LEMMA PollFailsInv ==
    ASSUME VaultInv, NEW c \in Chains, NEW p \in Polls(c), PollFails(c, p)
    PROVE  VaultInv'
<1>1. /\ poll' = [poll EXCEPT ![c][p] = Idle]
      /\ poll[c][p].at # "idle"
      /\ UNCHANGED <<file, boot, block, locked, fetched, sent, origin>>
  BY DEF PollFails
<1>2. ScanPart' /\ ScansStay /\ BootPart' /\ GoodFiles \subseteq GoodFiles'
  BY <1>1, PollStep, OriginSame
<1>3. poll'[c][p] = Idle /\ boot'[c].at # "init"
  BY <1>1 DEF VaultInv, PollPart
<1>4. PollOk(c, poll[c][p])'
  BY <1>3 DEF PollOk, Idle
<1>5. PollPart'
  BY <1>1, <1>2, <1>3, <1>4, PollsStay DEF VaultInv
<1> QED BY <1>1, <1>2, <1>5 DEF VaultInv, FilePart

LEMMA FoundDestInv ==
    ASSUME VaultInv, NEW c \in Chains, NEW p \in Polls(c), FoundDest(c, p)
    PROVE  VaultInv'
<1> DEFINE t == poll[c][p]
<1>1. /\ poll' = [poll EXCEPT ![c][p].at = "writeContract"]
      /\ t.at = "findDestChain"
      /\ UNCHANGED <<file, boot, block, locked, fetched, sent, origin>>
  BY DEF FoundDest
<1>2. ScanPart' /\ ScansStay /\ BootPart' /\ GoodFiles \subseteq GoodFiles'
  BY <1>1, PollStep, OriginSame
<1>3. boot'[c].at # "init" /\ boot[c].at # "init" /\ Scanned(c) \subseteq Scanned(c)'
  BY <1>1, <1>2 DEF VaultInv, PollPart, ScansStay
<1>4. poll'[c][p] = [t EXCEPT !.at = "writeContract"] /\ poll' = [poll EXCEPT ![c][p] = [t EXCEPT !.at = "writeContract"]]
  BY <1>1 DEF VaultInv, PollPart
<1>5. PollOk(c, t)
  BY DEF VaultInv, PollPart
<1> HIDE DEF t
<1>6. /\ DOMAIN t = {"at", "deposit", "copy", "rest", "to"}
      /\ t.to \in Int /\ t.to + 1 \in Scanned(c)' /\ t.copy \in GoodFiles'
  BY <1>1, <1>2, <1>3, <1>5 DEF PollOk
<1>7. PollOk(c, poll[c][p])'
  BY <1>4, <1>6 DEF PollOk
<1>8. PollPart'
  BY <1>1, <1>2, <1>3, <1>4, <1>7, PollsStay DEF VaultInv
<1> QED BY <1>1, <1>2, <1>8 DEF VaultInv, FilePart

\* The loop over the events, from any await of a poll: the file it goes on
\* with is a good one, and so is the position it saves at the end.
LEMMA ContinueInv ==
    ASSUME VaultInv, ScanPart', ScansStay, BootPart',
           NEW c \in Chains, NEW p \in Polls(c), boot'[c].at # "init",
           NEW todo, NEW to \in Int, to + 1 \in Scanned(c)', NEW f \in GoodFiles',
           Continue(c, p, todo, to, f)
    PROVE  VaultInv'
<1>0. ScanPart /\ PollPart
  BY DEF VaultInv
<1> DEFINE open == {e \in todo : key(e) \notin f.processed}
           next == CHOOSE e \in open : \A d \in open : e.id <= d.id
           rest == {e \in todo : e.id > next.id}
           held == [at |-> "findDestChain", deposit |-> next, copy |-> f, rest |-> rest, to |-> to]
           t == IF open = {} THEN Idle ELSE held
<1>1. /\ poll' = [poll EXCEPT ![c][p] = t]
      /\ IF open = {} THEN file' = [f EXCEPT !.lastBlock[c] = to + 1] ELSE file' = f
  BY DEF Continue, position_after
<1>2. PollOk(c, poll[c][p])'
  <2>1. t = Idle \/ /\ t.at = "findDestChain" /\ DOMAIN t = {"at", "deposit", "copy", "rest", "to"}
                    /\ t.to = to /\ t.copy = f
    OBVIOUS
  <2> HIDE DEF t
  <2>2. poll'[c][p] = t
    BY <1>0, <1>1 DEF PollPart
  <2> QED BY <2>1, <2>2 DEF PollOk, Idle
<1> HIDE DEF open, t
<1>3. PollPart'
  BY <1>0, <1>1, <1>2, PollsStay
<1>4. FilePart'
  BY <1>1 DEF FilePart, GoodFiles
<1> QED BY <1>3, <1>4 DEF VaultInv

LEMMA GotLogsInv ==
    ASSUME VaultInv, NEW c \in Chains, NEW p \in Polls(c), GotLogs(c, p)
    PROVE  VaultInv'
<1> DEFINE t == poll[c][p]
           found == {e \in locked : e.chain = c /\ t.from <= e.block /\ e.block <= t.to}
<1>1. /\ t.at = "getLogs"
      /\ Continue(c, p, found, t.to, file)
      /\ fetched' = fetched \cup {key(e) : e \in found}
      /\ UNCHANGED <<boot, block, locked, sent, origin>>
  BY DEF GotLogs
<1>2. ScanPart' /\ ScansStay /\ BootPart' /\ GoodFiles \subseteq GoodFiles'
  BY <1>1, PollStep, OriginSame
<1>3. boot'[c].at # "init"
  BY <1>1 DEF VaultInv, PollPart
<1>4. t.from \in Scanned(c) /\ t.from \in Int /\ t.to \in Int /\ t.to <= block[c]
  BY <1>1 DEF VaultInv, PollPart, PollOk, Scanned
<1>5. t.to + 1 \in Scanned(c)'
  <2>1. ASSUME NEW e \in locked, e.chain = c, origin[c] <= e.block, e.block < t.to + 1
        PROVE  key(e) \in fetched'
    <3>1. e.block \in Nat
      BY DEF VaultInv, ScanPart
    <3>2. CASE e.block < t.from
      BY <3>2, <2>1, <1>1, <1>4 DEF Scanned
    <3>3. CASE ~ (e.block < t.from)
      <4>1. t.from <= e.block /\ e.block <= t.to
        BY <3>1, <3>3, <2>1, <1>4
      <4> QED BY <4>1, <2>1, <1>1
    <3> QED BY <3>2, <3>3
  <2>2. t.to + 1 \in Int /\ t.to + 1 <= block[c] + 1
    BY <1>4 DEF VaultInv, ScanPart
  <2>3. \A e : key(e)' = key(e)
    BY DEF key
  <2> HIDE DEF t, found
  <2> QED BY <2>1, <2>2, <2>3, <1>1 DEF Scanned
<1>6. file \in GoodFiles'
  BY <1>2 DEF VaultInv, FilePart
<1> HIDE DEF t, found
<1> QED BY <1>1, <1>2, <1>3, <1>4, <1>5, <1>6, ContinueInv

\* A poll that holds a copy of the file across an await.
LEMMA HoldingPoll ==
    ASSUME VaultInv, NEW c \in Chains, NEW p \in Polls(c),
           poll[c][p].at \in {"findDestChain", "writeContract"}
    PROVE  /\ boot[c].at # "init"
           /\ poll[c][p].to \in Int /\ poll[c][p].to + 1 \in Scanned(c)
           /\ poll[c][p].copy \in GoodFiles
BY DEF VaultInv, PollPart, PollOk

LEMMA NoDestInv ==
    ASSUME VaultInv, NEW c \in Chains, NEW p \in Polls(c), NoDest(c, p)
    PROVE  VaultInv'
<1> DEFINE t == poll[c][p]
<1>1. /\ t.at = "findDestChain"
      /\ Continue(c, p, t.rest, t.to, file)
      /\ UNCHANGED <<boot, block, locked, fetched, sent, origin>>
  BY DEF NoDest
<1>2. ScanPart' /\ ScansStay /\ BootPart' /\ GoodFiles \subseteq GoodFiles'
  BY <1>1, PollStep, OriginSame
<1>3. boot[c].at # "init" /\ t.to \in Int /\ t.to + 1 \in Scanned(c)
  BY <1>1, HoldingPoll
<1>4. t.to + 1 \in Scanned(c)' /\ boot'[c].at # "init"
  BY <1>1, <1>2, <1>3 DEF ScansStay
<1>5. file \in GoodFiles'
  BY <1>2 DEF VaultInv, FilePart
<1> HIDE DEF t
<1> QED BY <1>1, <1>2, <1>3, <1>4, <1>5, ContinueInv

LEMMA ReleaseInv ==
    ASSUME VaultInv, NEW c \in Chains, NEW p \in Polls(c), NEW outcome \in Outcomes,
           Release(c, p, outcome)
    PROVE  VaultInv'
<1> DEFINE t == poll[c][p]
           k == key(t.deposit)
           f == IF returns_hash(outcome) THEN [t.copy EXCEPT !.processed = @ \cup {k}] ELSE file
<1>1. /\ t.at = "writeContract"
      /\ sent' = IF outcome = "not sent" THEN sent ELSE sent \cup {k}
      /\ Continue(c, p, t.rest, t.to, f)
      /\ UNCHANGED <<boot, block, locked, fetched, origin>>
  BY DEF Release
<1>2. ScanPart' /\ ScansStay /\ BootPart' /\ GoodFiles \subseteq GoodFiles'
  BY <1>1, PollStep, OriginSame
<1>3. boot[c].at # "init" /\ t.to \in Int /\ t.to + 1 \in Scanned(c) /\ t.copy \in GoodFiles
  BY <1>1, HoldingPoll
<1>4. t.to + 1 \in Scanned(c)' /\ boot'[c].at # "init"
  BY <1>1, <1>2, <1>3 DEF ScansStay
<1>5. file \in GoodFiles' /\ t.copy \in GoodFiles'
  BY <1>2, <1>3 DEF VaultInv, FilePart
<1>6. returns_hash(outcome) => k \in sent'
  BY <1>1 DEF returns_hash
<1> HIDE DEF t, k
<1>7. f \in GoodFiles'
  BY <1>5, <1>6 DEF GoodFiles
<1> HIDE DEF f
<1> QED BY <1>1, <1>2, <1>3, <1>4, <1>7, ContinueInv

LEMMA BootFailsInv ==
    ASSUME VaultInv, NEW c \in Chains, BootFails(c)
    PROVE  VaultInv'
<1>1. /\ boot' = [boot EXCEPT ![c] = Done]
      /\ UNCHANGED <<file, poll, block, locked, fetched, sent, origin>>
  BY DEF BootFails
<1>2. DOMAIN boot' = Chains /\ \A d \in Chains : boot'[d] = boot[d] \/ boot'[d] = Done
  BY <1>1 DEF VaultInv, BootPart
<1>3. ScanPart'
  BY <1>1 DEF VaultInv, ScanPart, lower
<1>4. Forward
  BY <1>1 DEF Forward, VaultInv, ScanPart
<1>5. \A d \in Chains : boot[d].at = "init" \/ boot'[d].at # "init"
  BY <1>2 DEF Done
<1>6. ScansStay
  BY <1>1, <1>3, <1>4, <1>5, ForwardScans DEF VaultInv
<1>7. FilePart' /\ BootPart' /\ PollPart'
  BY <1>1, <1>2, <1>3, <1>6, FilesStay, BootsStay, PollsSame DEF VaultInv, FilePart
<1> QED BY <1>3, <1>7 DEF VaultInv

\* A new process finds in the file what the old one wrote last.
LEMMA RestartInv ==
    ASSUME VaultInv, Reboot
    PROVE  VaultInv'
<1>1. /\ boot' = watch(file)
      /\ poll' = [c \in Chains |-> [p \in Polls(c) |-> Idle]]
      /\ UNCHANGED <<file, block, locked, fetched, sent, origin>>
  BY DEF Reboot
<1>2. ScanPart'
  BY <1>1 DEF VaultInv, ScanPart, lower
<1>3. \A c \in Chains : \/ file.lastBlock[c] = Missing /\ boot'[c].at = "init" /\ boot'[c].copy = file
                        \/ boot'[c] = Done
  BY <1>1 DEF watch
<1>4. \A c \in Chains : Scanned(c)' = Scanned(c)
  BY <1>1 DEF Scanned, key
<1>5. file \in GoodFiles'
  <2>1. file \in GoodFiles
    BY DEF VaultInv, FilePart
  <2>2. \A c \in Chains : boot'[c].at = "init" => file.lastBlock[c] = Missing
    BY <1>3 DEF Done
  <2> QED BY <2>1, <2>2, <1>1, <1>4 DEF GoodFiles
<1>6. FilePart'
  BY <1>1, <1>5 DEF FilePart
<1>7. BootPart'
  BY <1>1, <1>3, <1>5 DEF BootPart, BootOk, watch
<1>8. \A c \in Chains : \A p \in Polls(c) : poll'[c][p] = Idle
  BY <1>1
<1>9. PollPart'
  BY <1>1, <1>8 DEF PollPart, PollOk, Idle
<1> QED BY <1>2, <1>6, <1>7, <1>9 DEF VaultInv
-----------------------------------------------------------------------------
LEMMA VaultInitInv == VaultInit => VaultInv
<1> SUFFICES ASSUME VaultInit PROVE VaultInv
  OBVIOUS
<1> USE DEF VaultInit
<1>1. ScanPart
  BY VaultAssumption DEF ScanPart, lower
<1>2. file \in GoodFiles
  BY DEF GoodFiles, Scanned, Missing
<1>3. BootPart
  BY <1>2 DEF BootPart, BootOk, watch
<1>4. \A c \in Chains : \A p \in Polls(c) : poll[c][p] = Idle
  OBVIOUS
<1>5. PollPart
  BY <1>4 DEF PollPart, PollOk, Idle
<1> QED BY <1>1, <1>2, <1>3, <1>5 DEF VaultInv, FilePart

LEMMA VaultSameInv ==
    ASSUME VaultInv, UNCHANGED vaultVars
    PROVE  VaultInv'
<1>1. UNCHANGED <<file, boot, poll, block, locked, fetched, sent, origin>>
  BY DEF vaultVars
<1>2. ScanPart' /\ ScansStay /\ BootPart' /\ GoodFiles \subseteq GoodFiles'
  BY <1>1, PollStep, OriginSame
<1> QED BY <1>1, <1>2, PollsSame DEF VaultInv, FilePart

LEMMA VaultNextInv == VaultInv /\ [VaultNext]_vaultVars => VaultInv'
<1> SUFFICES ASSUME VaultInv, [VaultNext]_vaultVars PROVE VaultInv'
  OBVIOUS
<1>1. CASE UNCHANGED vaultVars
  BY <1>1, VaultSameInv
<1>2. CASE Reboot
  BY <1>2, RestartInv
<1>3. ASSUME NEW c \in Chains,
             (\E deposit \in BOOLEAN : NewBlock(c, deposit)) \/ BootDone(c) \/ BootFails(c)
      PROVE  VaultInv'
  BY <1>3, MineInv, BootDoneInv, BootFailsInv
<1>4. ASSUME NEW c \in Chains, NEW p \in Polls(c),
             BeginPoll(c, p) \/ PollFails(c, p) \/ GotLogs(c, p) \/ FoundDest(c, p) \/ NoDest(c, p)
      PROVE  VaultInv'
  BY <1>4, BeginPollInv, PollFailsInv, GotLogsInv, FoundDestInv, NoDestInv
<1>5. ASSUME NEW c \in Chains, NEW p \in Polls(c), NEW outcome \in Outcomes, Release(c, p, outcome)
      PROVE  VaultInv'
  BY <1>5, ReleaseInv
<1> QED BY <1>1, <1>2, <1>3, <1>4, <1>5 DEF VaultNext

LEMMA VaultInvariant == VaultSpec => []VaultInv
BY VaultInitInv, VaultNextInv, PTL DEF VaultSpec

\* However many polls overlap and however stale the copy that is written
\* back, none of the copies calls a deposit processed for which no release
\* was sent (processDeposit and loadState/saveState of relayer-vault.mjs).
THEOREM ProcessedAlwaysSent == VaultSpec => []ProcessedWasSent
<1>1. VaultInv => ProcessedWasSent
  <2> SUFFICES ASSUME VaultInv, NEW f \in Copies PROVE f.processed \subseteq sent
    BY DEF ProcessedWasSent
  <2>1. f \in GoodFiles
    <3>1. CASE f = file
      BY <3>1 DEF VaultInv, FilePart
    <3>2. ASSUME NEW c \in Chains, boot[c].at = "init", f = boot[c].copy PROVE f \in GoodFiles
      BY <3>2 DEF VaultInv, BootPart, BootOk, Done
    <3>3. ASSUME NEW c \in Chains, NEW p \in Polls(c), f = poll[c][p].copy,
                 poll[c][p].at \in {"findDestChain", "writeContract"}
          PROVE  f \in GoodFiles
      BY <3>3, HoldingPoll
    <3> QED BY <3>1, <3>2, <3>3 DEF Copies
  <2> QED BY <2>1 DEF GoodFiles
<1> QED BY <1>1, VaultInvariant, PTL

\* The position in the file never runs ahead of the polls (the lastBlock_
\* entries that watchChain and its polls load and save).
THEOREM PositionsAlwaysScanned == VaultSpec => []PositionsWereScanned
<1>1. VaultInv => PositionsWereScanned
  <2> SUFFICES ASSUME VaultInv, NEW e \in locked,
                      origin[e.chain] <= e.block, e.block < file.lastBlock[e.chain]
               PROVE  key(e) \in fetched
    BY DEF PositionsWereScanned
  <2>1. e.chain \in Chains
    BY DEF VaultInv, ScanPart
  <2>2. file.lastBlock[e.chain] \in Scanned(e.chain)
    BY <2>1 DEF VaultInv, FilePart, GoodFiles
  <2> QED BY <2>2 DEF Scanned
<1> QED BY <1>1, VaultInvariant, PTL
=============================================================================
