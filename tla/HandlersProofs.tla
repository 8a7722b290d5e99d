--------------------------- MODULE HandlersProofs ---------------------------
(***************************************************************************)
(* Theorems about Handlers, for every set of chains, contract addresses    *)
(* and events, every batch size and number of re-organizations.            *)
(***************************************************************************)
EXTENDS Handlers, FiniteSetTheorems, OrderLemmas

-----------------------------------------------------------------------------
(* Lemmas about the operators *)

\* No event of a batch lies at or past the cursor the batch sets.
LEMMA NextToHandleFromIsPast ==
    ASSUME NEW es \in SUBSET Events, es # {}
    PROVE  /\ NextToHandleFrom(es) \in Nat
           /\ \A e \in es : e.block_number < NextToHandleFrom(es)
<1> DEFINE S == {e.block_number : e \in es}
<1>1. S \in SUBSET (0..MaxBlockNumber) /\ S # {} /\ MaxBlockNumber \in Nat
  BY EventsAssumption, HandlerBoundsAssumption DEF BlockNumbers
<1>2. PICK n \in S : \A k \in S : k <= n
  BY <1>1, GreatestNatural
<1>3. \E b \in BlockNumbers : /\ \E e \in es : e.block_number = b
                              /\ \A e \in es : e.block_number <= b
  BY <1>1, <1>2 DEF BlockNumbers
<1>4. /\ LastBlockNumber(es) \in BlockNumbers
      /\ \A e \in es : e.block_number <= LastBlockNumber(es)
  BY <1>3 DEF LastBlockNumber
<1>5. \A e \in es : e.block_number \in Nat
  BY EventsAssumption DEF BlockNumbers
<1> QED BY <1>1, <1>4, <1>5 DEF NextToHandleFrom, BlockNumbers

\* The cursor a batch sets is one past an event of the batch.
LEMMA LastIsInBatch ==
    ASSUME NEW es \in SUBSET Events, es # {}
    PROVE  \E e \in es : NextToHandleFrom(es) = e.block_number + 1
<1> DEFINE S == {e.block_number : e \in es}
<1>1. S \in SUBSET (0..MaxBlockNumber) /\ S # {} /\ MaxBlockNumber \in Nat
  BY EventsAssumption, HandlerBoundsAssumption DEF BlockNumbers
<1>2. PICK n \in S : \A k \in S : k <= n
  BY <1>1, GreatestNatural
<1>3. \E b \in BlockNumbers : /\ \E e \in es : e.block_number = b
                              /\ \A e \in es : e.block_number <= b
  BY <1>1, <1>2 DEF BlockNumbers
<1>4. \E e \in es : e.block_number = LastBlockNumber(es)
  BY <1>3 DEF LastBlockNumber
<1> QED BY <1>4 DEF NextToHandleFrom

LEMMA Constants ==
    /\ MaxBlockNumber \in Nat /\ MaxReorgs \in Nat /\ BlockNumbers \subseteq Nat
    /\ 0 \in BlockNumbers /\ 0 \in Forks
    /\ \A r \in ContractAddresses : r.start_block_number \in Nat /\ r.chain_id \in ChainIds
    /\ \A e \in Events : /\ e.block_number \in Nat /\ e.log_index \in Nat
                         /\ e.row \in ContractAddresses /\ e.row.chain_id \in ChainIds
BY RowsAssumption, EventsAssumption, HandlerBoundsAssumption DEF BlockNumbers, Forks

-----------------------------------------------------------------------------
(* Type correctness *)

LEMMA InitTypeOK == Init => TypeOK
<1> SUFFICES ASSUME Init PROVE TypeOK
  OBVIOUS
<1>1. IsFiniteSet({})
  BY FS_EmptySet
<1>2. [r \in ContractAddresses |-> r.start_block_number] \in [ContractAddresses -> Nat]
  BY Constants
<1>3. \A c \in DOMAIN backtracked : FALSE
  BY DEF Init
<1>4. DOMAIN backtracked = {} /\ backtracked \in [DOMAIN backtracked -> [Events -> Nat]]
  BY DEF Init
<1>5. fork \in [ChainIds -> [BlockNumbers -> Forks]]
  BY Constants DEF Init
<1> QED BY <1>1, <1>2, <1>3, <1>4, <1>5 DEF Init, TypeOK

LEMMA IngesterTypeOK ==
    ASSUME TypeOK,
           \/ \E r \in ContractAddresses, b \in BlockNumbers : IngestEvents(r, b)
           \/ \E c \in ChainIds : ReorgChain(c)
    PROVE  TypeOK'
<1>1. UNCHANGED <<tables, side_effects, crashes, subtask, reorg_loop>>
  BY DEF IngestEvents, ReorgChain
<1>2. ASSUME NEW r \in ContractAddresses, NEW b \in BlockNumbers, IngestEvents(r, b)
      PROVE  TypeOK'
  <2>1. ingested' \in [ContractAddresses -> Nat]
    BY <1>2, Constants DEF IngestEvents, TypeOK
  <2>2. events' \subseteq Events
    BY <1>2 DEF IngestEvents, TypeOK
  <2> QED BY <1>1, <1>2, <2>1, <2>2
         DEF IngestEvents, TypeOK, tables, cursors, subtask, reorg_loop
<1>3. ASSUME NEW c \in ChainIds, ReorgChain(c)
      PROVE  TypeOK'
  <2> DEFINE id == Cardinality(reorged_blocks) + 1
  <2>1. id \in 1..MaxReorgs /\ id \in Forks
    <3>1. Cardinality(reorged_blocks) \in Nat
      BY FS_CardinalityType DEF TypeOK
    <3> QED BY <3>1, <1>3, Constants DEF ReorgChain, Forks
  <2>2. PICK from \in BlockNumbers, first \in Events :
           /\ fork' = [fork EXCEPT ![c] = [b \in BlockNumbers |-> IF b >= from THEN id ELSE fork[c][b]]]
           /\ events' \subseteq Events
           /\ reorged_blocks' = reorged_blocks \cup
                 {[id |-> id, chain_id |-> c, block_number |-> first.block_number]}
    BY <1>3 DEF ReorgChain, TypeOK
  <2>3. fork' \in [ChainIds -> [BlockNumbers -> Forks]]
    BY <2>1, <2>2 DEF TypeOK
  <2>4. IsFiniteSet(reorged_blocks')
    BY <2>2, FS_AddElement DEF TypeOK
  <2>5. reorged_blocks' \subseteq [id : 1..MaxReorgs, chain_id : ChainIds, block_number : BlockNumbers]
    BY <2>1, <2>2, EventsAssumption DEF TypeOK
  <2>6. earliest' \subseteq reorged_blocks'
    BY <1>1, <2>2 DEF TypeOK, reorg_loop
  <2>7. ingested' = ingested
    BY <1>3 DEF ReorgChain
  <2> QED BY <1>1, <2>2, <2>3, <2>4, <2>5, <2>6, <2>7
         DEF TypeOK, tables, cursors, subtask, reorg_loop
<1> QED BY <1>2, <1>3

LEMMA HandleEventsTypeOK ==
    ASSUME TypeOK, NEW c \in ChainIds, HandleEvents(c)
    PROVE  TypeOK'
<1>1. UNCHANGED <<ingester, handled_reorged_blocks, crashes, reorg_loop>>
  BY DEF HandleEvents, StreamContractAddresses, BeginTransaction, HandleEvent,
         CommitTransaction, tables
<1>2. CASE StreamContractAddresses(c)
  <2>1. contract_addresses' \in [ChainIds -> SUBSET Rows]
    BY <1>2 DEF StreamContractAddresses, Chunk, RowsOf, TypeOK, Rows
  <2>2. next_id' \in [ChainIds -> Nat]
    BY <1>2, StreamAssumption DEF StreamContractAddresses, RowIds, RowsOf, TypeOK
  <2> QED BY <1>1, <1>2, <2>1, <2>2
         DEF StreamContractAddresses, TypeOK, tables, cursors, ingester, reorg_loop
<1>3. CASE BeginTransaction(c)
  <2>1. PICK a \in contract_addresses[c] :
           /\ contract_address' = [contract_address EXCEPT ![c] = a]
           /\ contract_addresses' = [contract_addresses EXCEPT ![c] = @ \ {a}]
           /\ batch' = [batch EXCEPT ![c] = LoadEvents(a.row, a.handle_from)]
    BY <1>3 DEF BeginTransaction
  <2>2. LoadEvents(a.row, a.handle_from) \subseteq Events
    BY DEF LoadEvents, StoredFrom, TypeOK
  <2>3. a \in Rows
    BY DEF TypeOK
  <2>4. /\ pc' = [pc EXCEPT ![c] = "txn"] /\ done' = [done EXCEPT ![c] = {}]
        /\ UNCHANGED <<tables, side_effects, next_id>>
    BY <1>3 DEF BeginTransaction
  <2>5. \A d \in ChainIds : contract_address'[d] \in IF pc'[d] = "txn" THEN Rows ELSE {NoRow}
    <3>1. DOMAIN pc = ChainIds
      BY DEF TypeOK
    <3>2. ASSUME NEW d \in ChainIds
          PROVE  contract_address'[d] \in IF pc'[d] = "txn" THEN Rows ELSE {NoRow}
      <4>1. CASE d # c
        BY <4>1, <2>1, <2>4 DEF TypeOK
      <4>2. CASE d = c /\ c \in DOMAIN contract_address
        BY <4>2, <2>1, <2>3, <2>4, <3>1
      <4>3. c \in DOMAIN contract_address
        BY DEF TypeOK
      <4> QED BY <4>1, <4>2, <4>3
    <3> QED BY <3>2
  <2>6. \A d \in ChainIds : done'[d] \subseteq batch'[d]
    <3> HIDE DEF LoadEvents
    <3>1. ASSUME NEW d \in ChainIds PROVE done'[d] \subseteq batch'[d]
      <4>1. CASE d = c
        <5>1. done'[d] = {}
          BY <4>1, <2>4 DEF TypeOK
        <5> QED BY <5>1
      <4>2. CASE d # c
        BY <4>2, <2>1, <2>4 DEF TypeOK
      <4> QED BY <4>1, <4>2
    <3> QED BY <3>1
  <2>7. /\ pc' \in [ChainIds -> {"stream", "txn"}]
        /\ contract_addresses' \in [ChainIds -> SUBSET Rows]
        /\ contract_address' \in [ChainIds -> Rows \cup {NoRow}]
        /\ batch' \in [ChainIds -> SUBSET Events]
        /\ done' \in [ChainIds -> SUBSET Events]
    BY <2>1, <2>2, <2>3, <2>4 DEF TypeOK
  <2> QED BY <1>1, <2>1, <2>4, <2>5, <2>6, <2>7
         DEF TypeOK, tables, cursors, ingester, reorg_loop
<1>4. CASE HandleEvent(c)
  <2>1. PICK e \in batch[c] \ done[c] :
           /\ done' = [done EXCEPT ![c] = @ \cup {e}]
           /\ side_effects' = IF HasSideEffect(e, contract_address[c])
                              THEN [side_effects EXCEPT ![e] = @ + 1] ELSE side_effects
    BY <1>4 DEF HandleEvent
  <2>2. side_effects' \in [Events -> Nat]
    BY <2>1 DEF TypeOK
  <2>3. done' \in [ChainIds -> SUBSET Events] /\ \A d \in ChainIds : done'[d] \subseteq batch[d]
    BY <2>1 DEF TypeOK
  <2> QED BY <1>1, <1>4, <2>2, <2>3
         DEF HandleEvent, TypeOK, tables, cursors, ingester, reorg_loop
<1>5. CASE CommitTransaction(c)
  <2> DEFINE a == contract_address[c]
  <2>1. a \in Rows /\ a.row \in ContractAddresses
    BY <1>5 DEF CommitTransaction, TypeOK, Rows
  <2>2. batch[c] \in SUBSET Events
    BY DEF TypeOK
  <2>3. /\ next_block_number_to_handle_from' \in [ContractAddresses -> Nat]
        /\ next_block_number_for_side_effects' \in [ContractAddresses -> Nat]
    <3>1. CASE batch[c] = {}
      BY <3>1, <1>5 DEF CommitTransaction, TypeOK, cursors
    <3>2. CASE batch[c] # {}
      <4>1. NextToHandleFrom(batch[c]) \in Nat
        BY <3>2, <2>2, NextToHandleFromIsPast
      <4> QED BY <4>1, <3>2, <1>5, <2>1 DEF CommitTransaction, TypeOK
    <3> QED BY <3>1, <3>2
  <2>4. state_versions' = [e \in Events |-> IF e \in done[c] /\ WritesState(e)
                                            THEN state_versions[e] + 1 ELSE state_versions[e]]
    BY <1>5 DEF CommitTransaction
  <2>5. state_versions' \in [Events -> Nat] /\ \A e \in Events : state_versions[e] <= state_versions'[e]
    BY <2>4 DEF TypeOK
  <2>6. backtracked' = backtracked
    BY <1>1 DEF reorg_loop
  <2>7. \A d \in DOMAIN backtracked : \A e \in Events : backtracked[d][e] <= state_versions'[e]
    <3> SUFFICES ASSUME NEW d \in DOMAIN backtracked, NEW e \in Events
                 PROVE  backtracked[d][e] <= state_versions'[e]
      OBVIOUS
    <3>1. backtracked[d][e] \in Nat /\ backtracked[d][e] <= state_versions[e]
      BY DEF TypeOK
    <3>2. state_versions[e] \in Nat /\ state_versions'[e] \in Nat
      BY <2>5 DEF TypeOK
    <3> QED BY <3>1, <3>2, <2>5
  <2>8. /\ contract_address' = [contract_address EXCEPT ![c] = NoRow]
        /\ batch' = [batch EXCEPT ![c] = {}] /\ done' = [done EXCEPT ![c] = {}]
        /\ pc' = [pc EXCEPT ![c] = "stream"]
    BY <1>5 DEF CommitTransaction
  <2>10. \A d \in ChainIds : contract_address'[d] \in IF pc'[d] = "txn" THEN Rows ELSE {NoRow}
    BY <2>8 DEF TypeOK
  <2>11. \A d \in ChainIds : done'[d] \subseteq batch'[d]
    BY <2>8 DEF TypeOK
  <2>9. /\ pc' \in [ChainIds -> {"stream", "txn"}]
        /\ contract_address' \in [ChainIds -> Rows \cup {NoRow}]
        /\ batch' \in [ChainIds -> SUBSET Events]
        /\ done' \in [ChainIds -> SUBSET Events]
        /\ UNCHANGED <<next_id, contract_addresses, side_effects>>
    BY <1>5 DEF CommitTransaction, TypeOK
  <2> QED BY <1>1, <2>3, <2>5, <2>6, <2>7, <2>9, <2>10, <2>11 DEF TypeOK, ingester, reorg_loop
<1> QED BY <1>2, <1>3, <1>4, <1>5 DEF HandleEvents

LEMMA HandleChainReorgTypeOK ==
    ASSUME TypeOK, HandleChainReorg \/ Crash
    PROVE  TypeOK'
<1>1. CASE LoadReorgedBlocks
  <2>1. earliest' \subseteq UnhandledReorgedBlocks
    BY <1>1 DEF LoadReorgedBlocks, OnlyEarliestPerChain
  <2>2. earliest' \subseteq reorged_blocks
    BY <2>1 DEF UnhandledReorgedBlocks
  <2>3. /\ backtracked' = <<>> /\ reorg_pc' = "backtrack"
        /\ UNCHANGED <<ingester, tables, side_effects, crashes, subtask>>
    BY <1>1 DEF LoadReorgedBlocks
  <2>4. DOMAIN backtracked' = {} /\ backtracked' \in [DOMAIN backtracked' -> [Events -> Nat]]
    BY <2>3
  <2> QED BY <2>2, <2>3, <2>4 DEF TypeOK, ingester, tables, cursors, subtask
<1>2. ASSUME NEW r \in earliest, BacktrackStates(r)
      PROVE  TypeOK'
  <2> DEFINE found == VersionsFrom(r.chain_id, r.block_number)
  <2>1. r.chain_id \in ChainIds
    BY DEF TypeOK
  <2>2. found \in [Events -> Nat] /\ \A e \in Events : found[e] <= state_versions[e]
    BY DEF VersionsFrom, TypeOK
  <2>3. UNCHANGED <<ingester, tables, side_effects, crashes, subtask>>
    BY <1>2 DEF BacktrackStates
  <2>4. CASE reorg_pc' = "dead" /\ earliest' = {} /\ backtracked' = <<>>
    <3>1. DOMAIN backtracked' = {} /\ backtracked' \in [DOMAIN backtracked' -> [Events -> Nat]]
      BY <2>4
    <3> QED BY <2>3, <2>4, <3>1 DEF TypeOK, ingester, tables, cursors, subtask
  <2>5. CASE /\ backtracked' = [c \in DOMAIN backtracked \cup {r.chain_id} |->
                                  IF c = r.chain_id THEN found ELSE backtracked[c]]
             /\ UNCHANGED <<reorg_pc, earliest>>
    <3> HIDE DEF found
    <3>1. DOMAIN backtracked' = DOMAIN backtracked \cup {r.chain_id}
      BY <2>5
    <3>2. DOMAIN backtracked' \subseteq ChainIds
      BY <3>1, <2>1 DEF TypeOK
    <3>3. ASSUME NEW c \in DOMAIN backtracked'
          PROVE  /\ backtracked'[c] \in [Events -> Nat]
                 /\ \A e \in Events : backtracked'[c][e] <= state_versions[e]
      <4>1. CASE c = r.chain_id
        BY <4>1, <2>2, <2>5
      <4>2. CASE c # r.chain_id
        <5>1. c \in DOMAIN backtracked /\ backtracked'[c] = backtracked[c]
          BY <4>2, <3>1, <2>5
        <5> QED BY <5>1 DEF TypeOK
      <4> QED BY <4>1, <4>2
    <3>4. backtracked' \in [DOMAIN backtracked' -> [Events -> Nat]]
      BY <3>1, <3>3, <2>5
    <3> QED BY <2>3, <2>5, <3>2, <3>3, <3>4 DEF TypeOK, ingester, tables, cursors, subtask
  <2> QED BY <1>2, <2>4, <2>5 DEF BacktrackStates
<1>3. CASE CommitReorg
  <2>1. ASSUME NEW e \in Events
        PROVE  state_versions[e] - DeletedVersions(e) \in Nat
    <3>1. CASE e.row.chain_id \in DOMAIN backtracked
      <4>1. /\ backtracked[e.row.chain_id][e] \in Nat
            /\ backtracked[e.row.chain_id][e] <= state_versions[e]
            /\ state_versions[e] \in Nat
        BY <3>1 DEF TypeOK
      <4> QED BY <4>1, <3>1 DEF DeletedVersions
    <3>2. CASE e.row.chain_id \notin DOMAIN backtracked
      BY <3>2 DEF DeletedVersions, TypeOK
    <3> QED BY <3>1, <3>2
  <2>2. state_versions' \in [Events -> Nat]
    BY <1>3, <2>1 DEF CommitReorg
  <2>3. ASSUME NEW a \in ContractAddresses, \E r \in earliest : r.chain_id = a.chain_id
        PROVE  (CHOOSE r \in earliest : r.chain_id = a.chain_id).block_number \in Nat
    <3>1. (CHOOSE r \in earliest : r.chain_id = a.chain_id) \in earliest
      BY <2>3
    <3> QED BY <3>1, Constants DEF TypeOK
  <2>4. next_block_number_to_handle_from' \in [ContractAddresses -> Nat]
    BY <1>3, <2>3 DEF CommitReorg, TypeOK
  <2>5. handled_reorged_blocks' \subseteq 1..MaxReorgs
    BY <1>3 DEF CommitReorg, HandledIds, TypeOK
  <2>6. /\ reorg_pc' = "load" /\ earliest' = {} /\ backtracked' = <<>>
        /\ UNCHANGED <<ingester, next_block_number_for_side_effects, side_effects, crashes, subtask>>
    BY <1>3 DEF CommitReorg
  <2>7. DOMAIN backtracked' = {} /\ backtracked' \in [DOMAIN backtracked' -> [Events -> Nat]]
    BY <2>6
  <2> QED BY <2>2, <2>4, <2>5, <2>6, <2>7 DEF TypeOK, ingester, subtask
<1>4. CASE Crash
  <2>1. DOMAIN backtracked' = {} /\ backtracked' \in [DOMAIN backtracked' -> [Events -> Nat]]
    BY <1>4 DEF Crash
  <2> QED BY <1>4, <2>1 DEF Crash, TypeOK, ingester, tables, cursors
<1> QED BY <1>1, <1>2, <1>3, <1>4 DEF HandleChainReorg

LEMMA NextTypeOK == TypeOK /\ [Next]_vars => TypeOK'
<1> SUFFICES ASSUME TypeOK, [Next]_vars PROVE TypeOK'
  OBVIOUS
<1>1. CASE UNCHANGED vars
  BY <1>1 DEF vars, ingester, tables, cursors, subtask, reorg_loop, TypeOK
<1> QED BY <1>1, IngesterTypeOK, HandleEventsTypeOK, HandleChainReorgTypeOK DEF Next

\* Every variable of the handlers' task, the tables it shares and the ingester's
\* commits stay within their types; what a re-organization is about to delete exists.
THEOREM TypeCorrect == Spec => []TypeOK
<1>1. Init => TypeOK
  BY InitTypeOK
<1>2. TypeOK /\ [Next]_vars => TypeOK'
  BY NextTypeOK
<1> QED BY <1>1, <1>2, PTL DEF Spec

-----------------------------------------------------------------------------
(* Side effects, while the process does not die *)

SideEffectsStep(e) ==
    side_effects'[e] # side_effects[e] =>
        \A f \in Events : f.row = e.row /\ side_effects[f] > 0 => Precedes(f, e)

LEMMA InitSideEffectsInv == Init => SideEffectsInv
BY InitTypeOK
   DEF Init, SideEffectsInv, RowsOfChain, RowsStreamedOnce, SideEffectCursorsFresh,
       OneVersionStored, BatchesOrdered, SideEffectsBehindCursor, SideEffectsOnce

\* Whoever handles an event of a row is the subtask of the row's chain.
LEMMA DoneInOwnChain ==
    ASSUME SideEffectsInv, NEW c \in ChainIds, pc[c] = "txn", NEW e \in batch[c]
    PROVE  e.row.chain_id = c /\ e.row = contract_address[c].row
BY DEF SideEffectsInv, BatchesOrdered, RowsOfChain

\* The other processes touch nothing the invariant speaks of, except that the
\* ingester replaces one version of a chain by another.
LEMMA OthersKeepSideEffectsInv ==
    ASSUME SideEffectsInv, TypeOK',
           \/ \E r \in ContractAddresses, b \in BlockNumbers : IngestEvents(r, b)
           \/ \E c \in ChainIds : ReorgChain(c)
           \/ HandleChainReorg
    PROVE  SideEffectsInv'
<1>1. UNCHANGED <<next_block_number_for_side_effects, side_effects, crashes, subtask>>
  BY DEF IngestEvents, ReorgChain, HandleChainReorg, LoadReorgedBlocks, BacktrackStates,
         CommitReorg, tables, cursors
<1>2. OneVersionStored'
  <2>1. ASSUME NEW r \in ContractAddresses, NEW b \in BlockNumbers, IngestEvents(r, b)
        PROVE  OneVersionStored'
    BY <2>1 DEF IngestEvents, SideEffectsInv, OneVersionStored, IsCanonical
  <2>2. ASSUME NEW c \in ChainIds, ReorgChain(c)
        PROVE  OneVersionStored'
    <3>1. PICK forks :
             /\ fork' = [fork EXCEPT ![c] = forks]
             /\ \A e \in events' :
                   \/ e \in events /\ ~ (e.row.chain_id = c /\ ~ IsCanonical(e, forks))
                   \/ e.row.chain_id = c /\ IsCanonical(e, forks)
      BY <2>2 DEF ReorgChain
    <3>2. events' \subseteq Events /\ fork \in [ChainIds -> [BlockNumbers -> Forks]]
      BY DEF SideEffectsInv, TypeOK
    <3>3. ASSUME NEW e \in events'
          PROVE  IsCanonical(e, fork'[e.row.chain_id])
      <4>1. CASE e.row.chain_id = c
        <5>1. fork'[c] = forks
          BY <3>1, <3>2
        <5> QED BY <5>1, <4>1, <3>1
      <4>2. CASE e.row.chain_id # c
        <5>1. e \in events /\ fork'[e.row.chain_id] = fork[e.row.chain_id]
          BY <4>2, <3>1, <3>2, Constants
        <5> QED BY <5>1 DEF SideEffectsInv, OneVersionStored
      <4> QED BY <4>1, <4>2
    <3>4. \A e \in events' : IsCanonical(e, fork[e.row.chain_id])'
      BY <3>3 DEF IsCanonical
    <3> QED BY <3>4 DEF OneVersionStored
  <2>3. CASE HandleChainReorg
    <3>1. UNCHANGED <<events, fork>>
      BY <2>3 DEF HandleChainReorg, LoadReorgedBlocks, BacktrackStates, CommitReorg, ingester
    <3> QED BY <3>1 DEF SideEffectsInv, OneVersionStored, IsCanonical
  <2> QED BY <2>1, <2>2, <2>3
<1>3. RowsOfChain' /\ RowsStreamedOnce' /\ SideEffectCursorsFresh'
  BY <1>1 DEF subtask, SideEffectsInv, RowsOfChain, RowsStreamedOnce, SideEffectCursorsFresh
<1>4. BatchesOrdered' /\ SideEffectsBehindCursor' /\ SideEffectsOnce' /\ crashes' = 0
  BY <1>1 DEF subtask, SideEffectsInv, BatchesOrdered, SideEffectsBehindCursor,
              SideEffectsOnce, Precedes
<1> QED BY <1>2, <1>3, <1>4 DEF SideEffectsInv

LEMMA StreamKeepsSideEffectsInv ==
    ASSUME SideEffectsInv, TypeOK', NEW c \in ChainIds, StreamContractAddresses(c)
    PROVE  SideEffectsInv'
<1>1. UNCHANGED <<fork, events, next_block_number_for_side_effects, side_effects, crashes, pc,
                  contract_address, batch, done>>
  BY DEF StreamContractAddresses, ingester, tables, cursors
<1>2. \A d \in ChainIds \ {c} : contract_addresses'[d] = contract_addresses[d]
  BY DEF StreamContractAddresses, SideEffectsInv, TypeOK
<1>3. PICK from \in RowIds(c) \cup {next_id[c]} :
         contract_addresses'[c] =
           {[row |-> r,
             handle_from |-> next_block_number_to_handle_from[r],
             side_effects_from |-> next_block_number_for_side_effects[r]] :
               r \in Chunk(c, from)}
  BY DEF StreamContractAddresses, SideEffectsInv, TypeOK
<1>4. pc[c] # "txn"
  BY DEF StreamContractAddresses
<1>5. RowsOfChain' /\ RowsStreamedOnce' /\ SideEffectCursorsFresh'
  BY <1>1, <1>2, <1>3, <1>4
     DEF SideEffectsInv, RowsOfChain, RowsStreamedOnce, SideEffectCursorsFresh, Chunk, RowsOf
<1>6. /\ OneVersionStored' /\ BatchesOrdered' /\ SideEffectsBehindCursor'
      /\ SideEffectsOnce' /\ crashes' = 0
  BY <1>1 DEF SideEffectsInv, OneVersionStored, IsCanonical, BatchesOrdered,
              SideEffectsBehindCursor, SideEffectsOnce, Precedes
<1> QED BY <1>5, <1>6 DEF SideEffectsInv

LEMMA BeginKeepsSideEffectsInv ==
    ASSUME SideEffectsInv, TypeOK', NEW c \in ChainIds, BeginTransaction(c)
    PROVE  SideEffectsInv'
<1>1. PICK a \in contract_addresses[c] :
         /\ contract_address' = [contract_address EXCEPT ![c] = a]
         /\ contract_addresses' = [contract_addresses EXCEPT ![c] = @ \ {a}]
         /\ batch' = [batch EXCEPT ![c] = LoadEvents(a.row, a.handle_from)]
  BY DEF BeginTransaction
<1>2. /\ UNCHANGED <<fork, events, next_block_number_for_side_effects, side_effects, crashes>>
      /\ pc' = [pc EXCEPT ![c] = "txn"] /\ done' = [done EXCEPT ![c] = {}] /\ pc[c] = "stream"
  BY DEF BeginTransaction, ingester, tables, cursors
<1>3. LoadEvents(a.row, a.handle_from) \subseteq {e \in events : e.row = a.row}
  BY DEF LoadEvents, StoredFrom
<1>4. \A e, f \in LoadEvents(a.row, a.handle_from) : e = f \/ Precedes(e, f) \/ Precedes(f, e)
  <2> SUFFICES ASSUME NEW e \in LoadEvents(a.row, a.handle_from),
                      NEW f \in LoadEvents(a.row, a.handle_from), e # f
               PROVE  Precedes(e, f) \/ Precedes(f, e)
    OBVIOUS
  <2>1. e \in events /\ f \in events /\ e \in Events /\ f \in Events /\ e.row = f.row
    BY <1>3 DEF SideEffectsInv, TypeOK
  <2>2. e.block_number \in Nat /\ f.block_number \in Nat /\ e.log_index \in Nat /\ f.log_index \in Nat
    BY <2>1, Constants
  <2>3. e.block_number = f.block_number => e.fork = f.fork
    BY <2>1 DEF SideEffectsInv, OneVersionStored, IsCanonical
  <2>4. e.block_number = f.block_number => e.log_index # f.log_index
    BY <2>1, <2>3, EventsAssumption
  <2> QED BY <2>2, <2>4 DEF Precedes
<1> HIDE DEF LoadEvents
<1>5. /\ \A d \in ChainIds \ {c} : /\ contract_address'[d] = contract_address[d]
                                   /\ contract_addresses'[d] = contract_addresses[d]
                                   /\ batch'[d] = batch[d] /\ done'[d] = done[d] /\ pc'[d] = pc[d]
      /\ contract_address'[c] = a /\ contract_addresses'[c] = contract_addresses[c] \ {a}
      /\ batch'[c] = LoadEvents(a.row, a.handle_from) /\ done'[c] = {} /\ pc'[c] = "txn"
  BY <1>1, <1>2 DEF SideEffectsInv, TypeOK
<1>6. RowsOfChain' /\ RowsStreamedOnce' /\ SideEffectCursorsFresh'
  BY <1>2, <1>5 DEF SideEffectsInv, RowsOfChain, RowsStreamedOnce, SideEffectCursorsFresh
<1>7. BatchesOrdered'
  <2>1. ASSUME NEW d \in ChainIds, pc'[d] = "txn"
        PROVE  /\ \A e \in batch'[d] : e.row = contract_address'[d].row
               /\ \A e, f \in batch'[d] : e = f \/ Precedes(e, f) \/ Precedes(f, e)
               /\ \A e \in done'[d], f \in batch'[d] \ done'[d] : Precedes(e, f)
    <3>1. CASE d = c
      BY <3>1, <1>3, <1>4, <1>5
    <3>2. CASE d # c
      BY <3>2, <2>1, <1>5 DEF SideEffectsInv, BatchesOrdered
    <3> QED BY <3>1, <3>2
  <2> QED BY <2>1 DEF BatchesOrdered, Precedes
<1>8. SideEffectsBehindCursor'
  BY <1>2, <1>5 DEF SideEffectsInv, SideEffectsBehindCursor
<1>9. OneVersionStored' /\ SideEffectsOnce' /\ crashes' = 0
  BY <1>2 DEF SideEffectsInv, OneVersionStored, IsCanonical, SideEffectsOnce
<1> QED BY <1>6, <1>7, <1>8, <1>9 DEF SideEffectsInv

LEMMA HandleEventKeepsSideEffectsInv ==
    ASSUME SideEffectsInv, TypeOK', NEW c \in ChainIds, HandleEvent(c)
    PROVE  SideEffectsInv' /\ \A e \in Events : SideEffectsStep(e)
<1>1. PICK e \in batch[c] \ done[c] :
         /\ \A f \in batch[c] \ done[c] : ~ Precedes(f, e)
         /\ done' = [done EXCEPT ![c] = @ \cup {e}]
         /\ side_effects' = IF HasSideEffect(e, contract_address[c])
                            THEN [side_effects EXCEPT ![e] = @ + 1] ELSE side_effects
  BY DEF HandleEvent
<1>2. /\ UNCHANGED <<fork, events, next_block_number_for_side_effects, crashes, pc,
                     contract_addresses, contract_address, batch>>
      /\ pc[c] = "txn"
  BY DEF HandleEvent, ingester, tables, cursors
<1>3. e \in Events /\ e.row = contract_address[c].row /\ e.row.chain_id = c
  BY <1>2, DoneInOwnChain DEF SideEffectsInv, TypeOK
<1>4. ASSUME NEW f \in Events, f.row = e.row, side_effects[f] > 0,
             HasSideEffect(e, contract_address[c])
      PROVE  Precedes(f, e)
  <2>1. CASE f.block_number < next_block_number_for_side_effects[f.row]
    <3>1. /\ e.block_number >= contract_address[c].side_effects_from
          /\ contract_address[c].side_effects_from = next_block_number_for_side_effects[e.row]
          /\ next_block_number_for_side_effects[e.row] \in Nat
      BY <1>2, <1>3, <1>4, Constants DEF HasSideEffect, SideEffectsInv, SideEffectCursorsFresh, TypeOK
    <3>2. f.block_number < e.block_number
      BY <3>1, <2>1, <1>4, <1>3, Constants
    <3> QED BY <3>2 DEF Precedes
  <2>2. CASE \E d \in ChainIds : pc[d] = "txn" /\ f \in done[d]
    <3>1. PICK d \in ChainIds : pc[d] = "txn" /\ f \in done[d]
      BY <2>2
    <3>2. f \in batch[d]
      BY <3>1 DEF SideEffectsInv, TypeOK
    <3>3. d = c
      BY <3>1, <3>2, <1>3, <1>4, DoneInOwnChain
    <3> QED BY <3>1, <3>3, <1>1, <1>2 DEF SideEffectsInv, BatchesOrdered
  <2> QED BY <1>4, <2>1, <2>2 DEF SideEffectsInv, SideEffectsBehindCursor
<1>5. ~ Precedes(e, e)
  BY <1>3, Constants DEF Precedes
<1>6. \A f \in Events : side_effects'[f] # side_effects[f] =>
                           f = e /\ HasSideEffect(e, contract_address[c])
  BY <1>1 DEF SideEffectsInv, TypeOK
<1>7. \A f \in Events : SideEffectsStep(f)
  BY <1>4, <1>6 DEF SideEffectsStep
<1>8. SideEffectsOnce'
  <2>1. ASSUME NEW f \in Events PROVE side_effects'[f] <= 1
    <3>1. CASE side_effects'[f] = side_effects[f]
      BY <3>1 DEF SideEffectsInv, SideEffectsOnce
    <3>2. CASE side_effects'[f] # side_effects[f]
      <4>1. f = e /\ HasSideEffect(e, contract_address[c])
        BY <3>2, <1>6
      <4>2. ~ (side_effects[e] > 0) /\ side_effects[e] \in Nat
        BY <4>1, <1>3, <1>4, <1>5 DEF SideEffectsInv, TypeOK
      <4>3. side_effects'[e] = side_effects[e] + 1
        BY <4>1, <1>1, <1>3 DEF SideEffectsInv, TypeOK
      <4> QED BY <4>1, <4>2, <4>3
    <3> QED BY <3>1, <3>2
  <2> QED BY <2>1 DEF SideEffectsOnce
<1>9. /\ \A d \in ChainIds \ {c} : done'[d] = done[d]
      /\ done'[c] = done[c] \cup {e}
  BY <1>1 DEF SideEffectsInv, TypeOK
<1>10. BatchesOrdered'
  <2>1. ASSUME NEW d \in ChainIds, pc[d] = "txn"
        PROVE  \A f \in done'[d], g \in batch[d] \ done'[d] : Precedes(f, g)
    <3>1. CASE d # c
      BY <3>1, <2>1, <1>9 DEF SideEffectsInv, BatchesOrdered
    <3>2. CASE d = c
      <4> SUFFICES ASSUME NEW f \in done[c] \cup {e}, NEW g \in batch[c] \ (done[c] \cup {e})
                   PROVE  Precedes(f, g)
        BY <3>2, <1>9
      <4>1. CASE f \in done[c]
        BY <4>1, <1>2 DEF SideEffectsInv, BatchesOrdered
      <4>2. CASE f = e
        <5>1. ~ Precedes(g, e) /\ g # e
          BY <1>1
        <5> QED BY <4>2, <5>1, <1>1, <1>2 DEF SideEffectsInv, BatchesOrdered
      <4> QED BY <4>1, <4>2
    <3> QED BY <3>1, <3>2
  <2>2. \A d \in ChainIds : pc[d] = "txn" =>
           /\ \A f \in batch[d] : f.row = contract_address[d].row
           /\ \A f, g \in batch[d] : f = g \/ Precedes(f, g) \/ Precedes(g, f)
    BY DEF SideEffectsInv, BatchesOrdered
  <2> QED BY <1>2, <2>1, <2>2 DEF BatchesOrdered, Precedes
<1>11. SideEffectsBehindCursor'
  <2>1. ASSUME NEW f \in Events, side_effects'[f] > 0
        PROVE  \/ f.block_number < next_block_number_for_side_effects[f.row]
               \/ \E d \in ChainIds : pc[d] = "txn" /\ f \in done'[d]
    <3>1. CASE f = e
      BY <3>1, <1>2, <1>9
    <3>2. CASE f # e
      <4>1. side_effects[f] > 0
        BY <3>2, <2>1, <1>6
      <4>2. \A d \in ChainIds : done[d] \subseteq done'[d]
        BY <1>9
      <4> QED BY <4>1, <4>2 DEF SideEffectsInv, SideEffectsBehindCursor
    <3> QED BY <3>1, <3>2
  <2> QED BY <1>2, <2>1 DEF SideEffectsBehindCursor
<1>12. RowsOfChain' /\ RowsStreamedOnce' /\ SideEffectCursorsFresh'
  BY <1>2 DEF SideEffectsInv, RowsOfChain, RowsStreamedOnce, SideEffectCursorsFresh
<1>13. OneVersionStored' /\ crashes' = 0
  BY <1>2 DEF SideEffectsInv, OneVersionStored, IsCanonical
<1> QED BY <1>7, <1>8, <1>10, <1>11, <1>12, <1>13 DEF SideEffectsInv

LEMMA CommitKeepsSideEffectsInv ==
    ASSUME SideEffectsInv, TypeOK', NEW c \in ChainIds, CommitTransaction(c)
    PROVE  SideEffectsInv'
<1> DEFINE row == contract_address[c].row
           cursor == next_block_number_for_side_effects
<1>1. /\ UNCHANGED <<fork, events, side_effects, crashes, contract_addresses>>
      /\ pc[c] = "txn" /\ done[c] = batch[c]
  BY DEF CommitTransaction, ingester
<1>2. /\ \A d \in ChainIds \ {c} : /\ contract_address'[d] = contract_address[d]
                                   /\ batch'[d] = batch[d] /\ done'[d] = done[d] /\ pc'[d] = pc[d]
      /\ pc'[c] = "stream"
  BY DEF CommitTransaction, SideEffectsInv, TypeOK
<1>3. row \in ContractAddresses /\ row.chain_id = c
  BY <1>1 DEF SideEffectsInv, TypeOK, Rows, RowsOfChain
<1>4. batch[c] \in SUBSET Events
  BY DEF SideEffectsInv, TypeOK
<1>5. /\ \A r \in ContractAddresses \ {row} : cursor'[r] = cursor[r]
      /\ \A r \in ContractAddresses : cursor[r] \in Nat /\ cursor'[r] \in Nat
      /\ cursor'[row] >= cursor[row]
      /\ \A e \in batch[c] : e.block_number < cursor'[row]
  <2>1. CASE batch[c] = {}
    BY <2>1, <1>3 DEF CommitTransaction, cursors, SideEffectsInv, TypeOK
  <2>2. CASE batch[c] # {}
    <3>1. /\ NextToHandleFrom(batch[c]) \in Nat
          /\ \A e \in batch[c] : e.block_number < NextToHandleFrom(batch[c])
      BY <2>2, <1>4, NextToHandleFromIsPast
    <3>2. contract_address[c].side_effects_from = cursor[row] /\ cursor[row] \in Nat
      BY <1>1, <1>3 DEF SideEffectsInv, SideEffectCursorsFresh, TypeOK
    <3>3. cursor' = [cursor EXCEPT ![row] =
                        IF MovesSideEffects(contract_address[c], batch[c])
                        THEN NextToHandleFrom(batch[c]) ELSE @]
      BY <2>2 DEF CommitTransaction
    <3>4. \A r \in ContractAddresses : cursor[r] \in Nat /\ cursor'[r] \in Nat
      BY DEF SideEffectsInv, TypeOK
    <3>5. \A r \in ContractAddresses \ {row} : cursor'[r] = cursor[r]
      BY <3>3 DEF SideEffectsInv, TypeOK
    <3>6. cursor'[row] = IF NextToHandleFrom(batch[c]) > cursor[row]
                         THEN NextToHandleFrom(batch[c]) ELSE cursor[row]
      BY <3>2, <3>3, <1>3 DEF MovesSideEffects, SideEffectsInv, TypeOK
    <3>7. \A e \in batch[c] : e.block_number \in Nat
      BY <1>4, Constants
    <3> HIDE DEF cursor, row
    <3> QED BY <3>1, <3>2, <3>4, <3>5, <3>6, <3>7
  <2> QED BY <2>1, <2>2
<1>6. RowsOfChain' /\ RowsStreamedOnce'
  BY <1>1, <1>2 DEF SideEffectsInv, RowsOfChain, RowsStreamedOnce
<1>7. SideEffectCursorsFresh'
  <2>1. ASSUME NEW d \in ChainIds, NEW a \in contract_addresses[d]
        PROVE  a.side_effects_from = cursor'[a.row]
    <3>1. a.row \in ContractAddresses /\ a.row.chain_id = d
      BY DEF SideEffectsInv, TypeOK, Rows, RowsOfChain
    <3>2. a.row # row
      BY <3>1, <1>1, <1>3 DEF SideEffectsInv, RowsStreamedOnce
    <3> QED BY <3>1, <3>2, <1>5 DEF SideEffectsInv, SideEffectCursorsFresh
  <2>2. ASSUME NEW d \in ChainIds, pc'[d] = "txn"
        PROVE  contract_address'[d].side_effects_from = cursor'[contract_address'[d].row]
    <3>1. d # c /\ contract_address'[d] = contract_address[d] /\ pc[d] = "txn"
      BY <2>2, <1>2
    <3>2. contract_address[d].row \in ContractAddresses /\ contract_address[d].row.chain_id = d
      BY <3>1 DEF SideEffectsInv, TypeOK, Rows, RowsOfChain
    <3> QED BY <3>1, <3>2, <1>3, <1>5 DEF SideEffectsInv, SideEffectCursorsFresh
  <2> QED BY <1>1, <2>1, <2>2 DEF SideEffectCursorsFresh
<1>8. BatchesOrdered'
  BY <1>2 DEF SideEffectsInv, BatchesOrdered, Precedes
<1>9. SideEffectsBehindCursor'
  <2>1. ASSUME NEW e \in Events, side_effects[e] > 0
        PROVE  \/ e.block_number < cursor'[e.row]
               \/ \E d \in ChainIds : pc'[d] = "txn" /\ e \in done'[d]
    <3>1. e.row \in ContractAddresses /\ e.block_number \in Nat
      BY Constants
    <3>2. CASE e.block_number < cursor[e.row]
      <4>1. cursor[e.row] \in Nat /\ cursor'[e.row] \in Nat /\ cursor'[e.row] >= cursor[e.row]
        BY <3>1, <1>5
      <4> HIDE DEF cursor
      <4> QED BY <4>1, <3>1, <3>2
    <3>3. ASSUME NEW d \in ChainIds, pc[d] = "txn", e \in done[d]
          PROVE  \/ e.block_number < cursor'[e.row]
                 \/ pc'[d] = "txn" /\ e \in done'[d]
      <4>1. CASE d = c
        <5>1. e \in batch[c] /\ e.row = row
          BY <4>1, <3>3, <1>1, DoneInOwnChain
        <5> QED BY <5>1, <1>5
      <4>2. CASE d # c
        BY <4>2, <3>3, <1>2
      <4> QED BY <4>1, <4>2
    <3> QED BY <2>1, <3>2, <3>3 DEF SideEffectsInv, SideEffectsBehindCursor
  <2> QED BY <1>1, <2>1 DEF SideEffectsBehindCursor
<1>10. OneVersionStored' /\ SideEffectsOnce' /\ crashes' = 0
  BY <1>1 DEF SideEffectsInv, OneVersionStored, IsCanonical, SideEffectsOnce
<1> QED BY <1>6, <1>7, <1>8, <1>9, <1>10 DEF SideEffectsInv

LEMMA SideEffectsInvariant ==
    SideEffectsInv /\ [Next]_vars =>
        (crashes' = 0 => SideEffectsInv') /\ \A e \in Events : SideEffectsStep(e)
<1> SUFFICES ASSUME SideEffectsInv, [Next]_vars
             PROVE  (crashes' = 0 => SideEffectsInv') /\ \A e \in Events : SideEffectsStep(e)
  OBVIOUS
<1>1. TypeOK'
  BY NextTypeOK DEF SideEffectsInv
<1>2. CASE UNCHANGED vars
  <2>1. UNCHANGED <<fork, events, next_block_number_for_side_effects, side_effects, crashes,
                    pc, contract_addresses, contract_address, batch, done>>
    BY <1>2 DEF vars, ingester, tables, cursors, subtask
  <2> QED BY <1>1, <2>1
         DEF SideEffectsInv, RowsOfChain, RowsStreamedOnce, SideEffectCursorsFresh,
             OneVersionStored, IsCanonical, BatchesOrdered, Precedes,
             SideEffectsBehindCursor, SideEffectsOnce, SideEffectsStep
<1>3. CASE \/ \E r \in ContractAddresses, b \in BlockNumbers : IngestEvents(r, b)
           \/ \E c \in ChainIds : ReorgChain(c)
           \/ HandleChainReorg
  <2>1. UNCHANGED side_effects
    BY <1>3 DEF IngestEvents, ReorgChain, HandleChainReorg, LoadReorgedBlocks,
                BacktrackStates, CommitReorg
  <2> QED BY <1>1, <1>3, <2>1, OthersKeepSideEffectsInv DEF SideEffectsStep
<1>4. ASSUME NEW c \in ChainIds, HandleEvents(c)
      PROVE  SideEffectsInv' /\ \A e \in Events : SideEffectsStep(e)
  <2>1. CASE HandleEvent(c)
    BY <2>1, <1>1, HandleEventKeepsSideEffectsInv
  <2>2. CASE StreamContractAddresses(c) \/ BeginTransaction(c) \/ CommitTransaction(c)
    <3>1. UNCHANGED side_effects
      BY <2>2 DEF StreamContractAddresses, BeginTransaction, CommitTransaction
    <3> QED BY <1>1, <2>2, <3>1, StreamKeepsSideEffectsInv, BeginKeepsSideEffectsInv,
               CommitKeepsSideEffectsInv DEF SideEffectsStep
  <2> QED BY <1>4, <2>1, <2>2 DEF HandleEvents
<1>5. CASE Crash
  BY <1>5 DEF Crash, SideEffectsInv, SideEffectsStep
<1> QED BY <1>2, <1>3, <1>4, <1>5 DEF Next

\* A process that died stays counted.
LEMMA CrashesAreCounted == TypeOK /\ [Next]_vars => (crashes' = 0 => crashes = 0)
<1> SUFFICES ASSUME TypeOK, [Next]_vars  PROVE crashes' = 0 => crashes = 0
  OBVIOUS
<1>1. CASE Crash
  BY <1>1 DEF Crash, TypeOK
<1>2. ASSUME \/ UNCHANGED vars
             \/ \E r \in ContractAddresses, b \in BlockNumbers : IngestEvents(r, b)
             \/ \E c \in ChainIds : ReorgChain(c)
             \/ \E c \in ChainIds : HandleEvents(c)
             \/ HandleChainReorg
      PROVE  UNCHANGED crashes
  BY <1>2 DEF vars, IngestEvents, ReorgChain, HandleEvents, StreamContractAddresses,
              BeginTransaction, HandleEvent, CommitTransaction, HandleChainReorg,
              LoadReorgedBlocks, BacktrackStates, CommitReorg
<1> QED BY <1>1, <1>2 DEF Next

SideEffectsIInv == TypeOK /\ (crashes = 0 => SideEffectsInv)

\* Until the indexer is killed for the first time, no event's side effect happens twice,
\* and the side effects of a contract address follow the order of the chain, however
\* often re-organizations make the handlers go back and whatever commits in between.
THEOREM SideEffectsNeverRepeated ==
    Spec => [](crashes = 0 => SideEffectsOnce) /\ SideEffectsInOrder
<1> DEFINE Step == \A e \in Events : crashes = 0 /\ side_effects'[e] # side_effects[e] =>
                      \A f \in Events : f.row = e.row /\ side_effects[f] > 0 => Precedes(f, e)
<1>1. Init => SideEffectsIInv
  BY InitTypeOK, InitSideEffectsInv DEF SideEffectsIInv
<1>2. SideEffectsIInv /\ [Next]_vars => SideEffectsIInv' /\ Step
  BY NextTypeOK, CrashesAreCounted, SideEffectsInvariant DEF SideEffectsIInv, SideEffectsStep
<1>3. SideEffectsIInv => (crashes = 0 => SideEffectsOnce)
  BY DEF SideEffectsIInv, SideEffectsInv
<1>4. Step => [Step]_vars
  OBVIOUS
<1> QED BY <1>1, <1>2, <1>3, <1>4, PTL DEF Spec, SideEffectsInOrder
-----------------------------------------------------------------------------
(* States, until the first re-organization *)

LEMMA InitBeforeReorgs == Init => BeforeReorgs
<1> SUFFICES ASSUME Init PROVE BeforeReorgs
  OBVIOUS
<1>1. CursorsBehindIngester
  BY Constants DEF Init, CursorsBehindIngester
<1>2. RowsOfChain /\ RowsStreamedOnce /\ HandleCursorsFresh /\ BatchesArePrefixes
  BY DEF Init, RowsOfChain, RowsStreamedOnce, HandleCursorsFresh, BatchesArePrefixes
<1>3. StatesMatchCursor
  BY DEF Init, StatesMatchCursor
<1> QED BY <1>1, <1>2, <1>3 DEF Init, BeforeReorgs

\* The limit takes the events of a row from the front: if one is loaded, so is
\* everything in the blocks before it.
LEMMA LoadedEventsArePrefix ==
    ASSUME TypeOK, NEW row, NEW from \in Nat,
           NEW e \in LoadEvents(row, from), NEW f \in StoredFrom(row, from),
           f.block_number < e.block_number
    PROVE  f \in LoadEvents(row, from)
<1> DEFINE Before(g) == {h \in StoredFrom(row, from) : Precedes(h, g)}
<1>1. e \in StoredFrom(row, from) /\ Cardinality(Before(e)) < BlocksPerBatch
  BY DEF LoadEvents
<1>2. StoredFrom(row, from) \subseteq Events
  BY DEF StoredFrom, TypeOK
<1>3. Before(f) \subseteq Before(e)
  <2> SUFFICES ASSUME NEW h \in Events, Precedes(h, f)  PROVE Precedes(h, e)
    BY <1>2
  <2> QED BY <1>1, <1>2, Constants DEF Precedes
<1>4. IsFiniteSet(Before(e)) /\ IsFiniteSet(Before(f))
  <2>1. Before(e) \subseteq Events /\ Before(f) \subseteq Events
    BY <1>2
  <2> QED BY <2>1, EventsAssumption, FS_Subset
<1>5. /\ Cardinality(Before(f)) <= Cardinality(Before(e))
      /\ Cardinality(Before(f)) \in Nat /\ Cardinality(Before(e)) \in Nat
  BY <1>3, <1>4, FS_Subset, FS_CardinalityType
<1>6. Cardinality(Before(f)) < BlocksPerBatch
  BY <1>1, <1>5, BlocksPerBatchAssumption
<1> QED BY <1>6 DEF LoadEvents

\* What the ingester adds lies past every cursor, and past every batch.
LEMMA IngestKeepsBeforeReorgs ==
    ASSUME TypeOK, TypeOK', BeforeReorgs, reorged_blocks = {},
           NEW r \in ContractAddresses, NEW b \in BlockNumbers, IngestEvents(r, b)
    PROVE  BeforeReorgs'
<1>1. UNCHANGED <<reorged_blocks, tables, side_effects, crashes, subtask, reorg_loop>>
  BY DEF IngestEvents
<1>2. UNCHANGED <<next_block_number_to_handle_from, state_versions, pc, contract_addresses,
                  contract_address, batch, done, reorg_pc>>
  BY <1>1 DEF tables, cursors, subtask, reorg_loop
<1>3. /\ events \subseteq events' /\ events' \subseteq Events
      /\ \A e \in events' \ events : e.row = r /\ ingested[r] <= e.block_number
                                     /\ e.block_number <= b
  BY DEF IngestEvents, TypeOK
<1>4. /\ ingested[r] <= b /\ b \in Nat
      /\ ingested' = [ingested EXCEPT ![r] = b + 1]
  BY Constants DEF IngestEvents
<1>5. \A q \in ContractAddresses : ingested[q] \in Nat /\ next_block_number_to_handle_from[q] \in Nat
  BY DEF TypeOK
<1>6. \A q \in ContractAddresses : ingested'[q] = IF q = r THEN b + 1 ELSE ingested[q]
  BY <1>4 DEF TypeOK
<1>7. CursorsBehindIngester'
  <2>1. ASSUME NEW q \in ContractAddresses
        PROVE  next_block_number_to_handle_from[q] <= ingested'[q]
    BY <1>4, <1>5, <1>6 DEF BeforeReorgs, CursorsBehindIngester
  <2>2. ASSUME NEW e \in events'  PROVE e.block_number < ingested'[e.row]
    <3>1. e.row \in ContractAddresses /\ e.block_number \in Nat
      BY <1>3, Constants
    <3>2. CASE e \in events
      <4>1. e.block_number < ingested[e.row]
        BY <3>2 DEF BeforeReorgs, CursorsBehindIngester
      <4> QED BY <4>1, <3>1, <1>4, <1>5, <1>6
    <3>3. CASE e \notin events
      BY <3>1, <3>3, <1>3, <1>4, <1>6
    <3> QED BY <3>2, <3>3
  <2> QED BY <1>2, <2>1, <2>2 DEF CursorsBehindIngester
<1>8. BatchesArePrefixes'
  <2>1. ASSUME NEW c \in ChainIds, pc[c] = "txn"
        PROVE  LET a == contract_address[c]
                   Stored == {e \in events' : e.row = a.row /\ e.block_number >= a.handle_from}
               IN  /\ batch[c] \subseteq Stored
                   /\ \A e \in batch[c], f \in Stored :
                         f.block_number < e.block_number => f \in batch[c]
    <3> DEFINE a == contract_address[c]
    <3>1. /\ batch[c] \subseteq StoredFrom(a.row, a.handle_from)
          /\ \A e \in batch[c], f \in StoredFrom(a.row, a.handle_from) :
                f.block_number < e.block_number => f \in batch[c]
      BY <2>1 DEF BeforeReorgs, BatchesArePrefixes
    <3>2. ASSUME NEW e \in batch[c], NEW f \in events', f.row = a.row,
                 f.block_number >= a.handle_from, f.block_number < e.block_number
          PROVE  f \in batch[c]
      <4>1. e \in events /\ e.row = f.row /\ e.block_number < ingested[e.row]
        BY <3>1, <3>2 DEF StoredFrom, BeforeReorgs, CursorsBehindIngester
      <4>2. e.row \in ContractAddresses /\ e.block_number \in Nat /\ f.block_number \in Nat
        BY <4>1, <1>3, Constants
      <4>3. f \in events
        <5>1. SUFFICES ASSUME f \notin events PROVE FALSE
          OBVIOUS
        <5>2. f.row = r /\ ingested[r] <= f.block_number
          BY <5>1, <1>3
        <5> QED BY <5>2, <4>1, <4>2, <3>2, <1>5
      <4> QED BY <4>3, <3>1, <3>2 DEF StoredFrom
    <3> QED BY <3>1, <3>2, <1>3 DEF StoredFrom
  <2>2. \A c \in ChainIds : pc[c] # "txn" => batch[c] = {}
    BY DEF BeforeReorgs, BatchesArePrefixes
  <2> QED BY <1>2, <2>1, <2>2 DEF BatchesArePrefixes, StoredFrom
<1>9. StatesMatchCursor'
  <2>1. ASSUME NEW e \in Events, WritesState(e)
        PROVE  state_versions[e] =
                  IF e \in events' /\ e.block_number < next_block_number_to_handle_from[e.row]
                  THEN 1 ELSE 0
    <3>1. state_versions[e] =
             IF e \in events /\ e.block_number < next_block_number_to_handle_from[e.row]
             THEN 1 ELSE 0
      BY <2>1 DEF BeforeReorgs, StatesMatchCursor
    <3>2. ASSUME e \in events' \ events
          PROVE  ~ (e.block_number < next_block_number_to_handle_from[e.row])
      <4>1. e.row = r /\ ingested[r] <= e.block_number /\ e.block_number \in Nat
        BY <3>2, <1>3, Constants
      <4>2. next_block_number_to_handle_from[r] <= ingested[r]
        BY DEF BeforeReorgs, CursorsBehindIngester
      <4> QED BY <4>1, <4>2, <1>5
    <3> QED BY <3>1, <3>2, <1>3
  <2> QED BY <1>2, <2>1 DEF StatesMatchCursor, WritesState
<1>10. RowsOfChain' /\ RowsStreamedOnce' /\ HandleCursorsFresh' /\ reorg_pc' = "load"
  BY <1>2 DEF BeforeReorgs, RowsOfChain, RowsStreamedOnce, HandleCursorsFresh
<1> QED BY <1>7, <1>8, <1>9, <1>10 DEF BeforeReorgs

LEMMA StreamKeepsBeforeReorgs ==
    ASSUME TypeOK, TypeOK', BeforeReorgs, NEW c \in ChainIds, StreamContractAddresses(c)
    PROVE  BeforeReorgs'
<1>1. UNCHANGED <<ingested, events, reorged_blocks, next_block_number_to_handle_from,
                  state_versions, pc, contract_address, batch, reorg_pc>>
  BY DEF StreamContractAddresses, ingester, tables, cursors, reorg_loop
<1>2. \A d \in ChainIds \ {c} : contract_addresses'[d] = contract_addresses[d]
  BY DEF StreamContractAddresses, TypeOK
<1>3. PICK from \in RowIds(c) \cup {next_id[c]} :
         contract_addresses'[c] =
           {[row |-> r,
             handle_from |-> next_block_number_to_handle_from[r],
             side_effects_from |-> next_block_number_for_side_effects[r]] :
               r \in Chunk(c, from)}
  BY DEF StreamContractAddresses, TypeOK
<1>4. pc[c] # "txn"
  BY DEF StreamContractAddresses
<1>5. RowsOfChain' /\ RowsStreamedOnce' /\ HandleCursorsFresh'
  BY <1>1, <1>2, <1>3, <1>4
     DEF BeforeReorgs, RowsOfChain, RowsStreamedOnce, HandleCursorsFresh, Chunk, RowsOf
<1>6. CursorsBehindIngester' /\ BatchesArePrefixes' /\ StatesMatchCursor' /\ reorg_pc' = "load"
  BY <1>1 DEF BeforeReorgs, CursorsBehindIngester, BatchesArePrefixes, StoredFrom,
              StatesMatchCursor, WritesState
<1> QED BY <1>5, <1>6 DEF BeforeReorgs

LEMMA BeginKeepsBeforeReorgs ==
    ASSUME TypeOK, TypeOK', BeforeReorgs, NEW c \in ChainIds, BeginTransaction(c)
    PROVE  BeforeReorgs'
<1>1. PICK a \in contract_addresses[c] :
         /\ contract_address' = [contract_address EXCEPT ![c] = a]
         /\ contract_addresses' = [contract_addresses EXCEPT ![c] = @ \ {a}]
         /\ batch' = [batch EXCEPT ![c] = LoadEvents(a.row, a.handle_from)]
  BY DEF BeginTransaction
<1>2. /\ UNCHANGED <<ingested, events, reorged_blocks, next_block_number_to_handle_from,
                     state_versions, reorg_pc>>
      /\ pc' = [pc EXCEPT ![c] = "txn"]
  BY DEF BeginTransaction, ingester, tables, cursors, reorg_loop
<1>3. a.handle_from \in Nat
  BY DEF TypeOK, Rows
<1>4. /\ LoadEvents(a.row, a.handle_from) \subseteq StoredFrom(a.row, a.handle_from)
      /\ \A e \in LoadEvents(a.row, a.handle_from), f \in StoredFrom(a.row, a.handle_from) :
            f.block_number < e.block_number => f \in LoadEvents(a.row, a.handle_from)
  <2>1. LoadEvents(a.row, a.handle_from) \subseteq StoredFrom(a.row, a.handle_from)
    BY DEF LoadEvents
  <2> QED BY <2>1, <1>3, LoadedEventsArePrefix
<1> HIDE DEF LoadEvents
<1>5. /\ \A d \in ChainIds \ {c} : /\ contract_address'[d] = contract_address[d]
                                   /\ contract_addresses'[d] = contract_addresses[d]
                                   /\ batch'[d] = batch[d] /\ pc'[d] = pc[d]
      /\ contract_address'[c] = a /\ contract_addresses'[c] = contract_addresses[c] \ {a}
      /\ batch'[c] = LoadEvents(a.row, a.handle_from) /\ pc'[c] = "txn"
  BY <1>1, <1>2 DEF TypeOK
<1>6. RowsOfChain' /\ RowsStreamedOnce' /\ HandleCursorsFresh'
  BY <1>2, <1>5 DEF BeforeReorgs, RowsOfChain, RowsStreamedOnce, HandleCursorsFresh
<1>7. BatchesArePrefixes'
  <2> DEFINE Prefix(d, q, es) ==
               /\ es \subseteq StoredFrom(q.row, q.handle_from)
               /\ \A e \in es, f \in StoredFrom(q.row, q.handle_from) :
                     f.block_number < e.block_number => f \in es
  <2>1. ASSUME NEW d \in ChainIds
        PROVE  IF pc'[d] = "txn" THEN Prefix(d, contract_address'[d], batch'[d]) ELSE batch'[d] = {}
    <3>1. CASE d = c
      BY <3>1, <1>4, <1>5
    <3>2. CASE d # c
      BY <3>2, <1>5 DEF BeforeReorgs, BatchesArePrefixes
    <3> QED BY <3>1, <3>2
  <2> QED BY <1>2, <2>1 DEF BatchesArePrefixes, StoredFrom
<1>8. CursorsBehindIngester' /\ StatesMatchCursor' /\ reorg_pc' = "load"
  BY <1>2 DEF BeforeReorgs, CursorsBehindIngester, StatesMatchCursor, WritesState
<1> QED BY <1>6, <1>7, <1>8 DEF BeforeReorgs

LEMMA HandleEventKeepsBeforeReorgs ==
    ASSUME TypeOK, TypeOK', BeforeReorgs, NEW c \in ChainIds, HandleEvent(c)
    PROVE  BeforeReorgs'
<1>1. UNCHANGED <<ingested, events, reorged_blocks, next_block_number_to_handle_from,
                  state_versions, pc, contract_addresses, contract_address, batch, reorg_pc>>
  BY DEF HandleEvent, ingester, tables, cursors, reorg_loop
<1> QED BY <1>1 DEF BeforeReorgs, RowsOfChain, RowsStreamedOnce, HandleCursorsFresh,
       CursorsBehindIngester, BatchesArePrefixes, StoredFrom, StatesMatchCursor, WritesState

\* The cursor passes the batch and nothing else that is stored.
LEMMA CommitKeepsBeforeReorgs ==
    ASSUME TypeOK, TypeOK', BeforeReorgs, BatchesEndWithBlocks, reorged_blocks = {},
           NEW c \in ChainIds, CommitTransaction(c)
    PROVE  BeforeReorgs'
<1> DEFINE a == contract_address[c]
           row == a.row
           cursor == next_block_number_to_handle_from
<1>1. /\ UNCHANGED <<ingested, events, reorged_blocks, contract_addresses, reorg_pc>>
      /\ pc[c] = "txn" /\ done[c] = batch[c]
  BY DEF CommitTransaction, ingester, reorg_loop
<1>2. /\ \A d \in ChainIds \ {c} : /\ contract_address'[d] = contract_address[d]
                                   /\ batch'[d] = batch[d] /\ pc'[d] = pc[d]
      /\ pc'[c] = "stream" /\ batch'[c] = {}
  BY DEF CommitTransaction, TypeOK
<1>3. row \in ContractAddresses /\ row.chain_id = c
  BY <1>1 DEF TypeOK, Rows, BeforeReorgs, RowsOfChain
<1>4. /\ batch[c] \in SUBSET Events /\ batch[c] \subseteq StoredFrom(row, cursor[row])
      /\ \A e \in batch[c], f \in StoredFrom(row, cursor[row]) :
            f.block_number < e.block_number => f \in batch[c]
  <2>1. a.handle_from = cursor[row]
    BY <1>1 DEF BeforeReorgs, HandleCursorsFresh
  <2> QED BY <2>1, <1>1 DEF TypeOK, BeforeReorgs, BatchesArePrefixes
<1>5. \A e \in batch[c] : /\ e \in events /\ e.row = row /\ e.block_number >= cursor[row]
                          /\ e.block_number \in Nat /\ e.block_number < ingested[row]
  BY <1>4, Constants DEF StoredFrom, BeforeReorgs, CursorsBehindIngester
<1>6. \A r \in ContractAddresses : cursor[r] \in Nat /\ cursor'[r] \in Nat /\ ingested[r] \in Nat
  BY <1>1 DEF TypeOK
<1>7. \A r \in ContractAddresses \ {row} : cursor'[r] = cursor[r]
  <2>1. CASE batch[c] = {}
    BY <2>1 DEF CommitTransaction, cursors
  <2>2. CASE batch[c] # {}
    BY <2>2 DEF CommitTransaction, TypeOK
  <2> QED BY <2>1, <2>2
<1>8. /\ cursor'[row] <= ingested[row]
      /\ \A e \in events : e.row = row /\ e.block_number < cursor'[row] =>
            e.block_number < cursor[row] \/ e \in batch[c]
      /\ \A e \in batch[c] : e.block_number < cursor'[row]
  <2>1. CASE batch[c] = {}
    BY <2>1, <1>3 DEF CommitTransaction, cursors, BeforeReorgs, CursorsBehindIngester
  <2>2. CASE batch[c] # {}
    <3>1. PICK last \in batch[c] :
             NextToHandleFrom(batch[c]) = last.block_number + 1
      BY <2>2, <1>4, LastIsInBatch
    <3>2. /\ NextToHandleFrom(batch[c]) \in Nat
          /\ \A e \in batch[c] : e.block_number < NextToHandleFrom(batch[c])
      BY <2>2, <1>4, NextToHandleFromIsPast
    <3>3. cursor'[row] = last.block_number + 1
      BY <2>2, <3>1, <1>3 DEF CommitTransaction, TypeOK
    <3>4. last.block_number \in Nat /\ last.block_number < ingested[row]
      BY <1>5
    <3>5. cursor'[row] <= ingested[row]
      BY <3>3, <3>4, <1>3, <1>6
    <3>6. ASSUME NEW e \in events, e.row = row, e.block_number < cursor'[row],
                 ~ (e.block_number < cursor[row])
          PROVE  e \in batch[c]
      <4>1. e.block_number \in Nat
        BY Constants DEF TypeOK
      <4>2. e \in StoredFrom(row, cursor[row])
        BY <3>6, <4>1, <1>3, <1>6 DEF StoredFrom
      <4>3. e.block_number < last.block_number \/ e.block_number = last.block_number
        BY <3>3, <3>4, <3>6, <4>1
      <4>4. CASE e.block_number < last.block_number
        BY <4>2, <4>4, <1>4
      <4>5. CASE e.block_number = last.block_number
        BY <4>5, <3>6, <1>5 DEF BatchesEndWithBlocks
      <4> QED BY <4>3, <4>4, <4>5
    <3> QED BY <3>1, <3>2, <3>3, <3>5, <3>6
  <2> QED BY <2>1, <2>2
<1> HIDE DEF cursor, row
<1>9. RowsOfChain' /\ RowsStreamedOnce'
  BY <1>1, <1>2 DEF BeforeReorgs, RowsOfChain, RowsStreamedOnce
<1>10. HandleCursorsFresh'
  <2>1. ASSUME NEW d \in ChainIds, NEW q \in contract_addresses[d]
        PROVE  q.handle_from = cursor'[q.row]
    <3>1. q.row \in ContractAddresses /\ q.row.chain_id = d
      BY DEF TypeOK, Rows, BeforeReorgs, RowsOfChain
    <3>2. q.row # row
      BY <3>1, <1>1, <1>3 DEF BeforeReorgs, RowsStreamedOnce, row
    <3> QED BY <3>1, <3>2, <1>7 DEF BeforeReorgs, HandleCursorsFresh, cursor
  <2>2. ASSUME NEW d \in ChainIds, pc'[d] = "txn"
        PROVE  contract_address'[d].handle_from = cursor'[contract_address'[d].row]
    <3>1. d # c /\ contract_address'[d] = contract_address[d] /\ pc[d] = "txn"
      BY <2>2, <1>2
    <3>2. contract_address[d].row \in ContractAddresses /\ contract_address[d].row.chain_id = d
      BY <3>1 DEF TypeOK, Rows, BeforeReorgs, RowsOfChain
    <3> QED BY <3>1, <3>2, <1>3, <1>7 DEF BeforeReorgs, HandleCursorsFresh, cursor
  <2> QED BY <1>1, <2>1, <2>2 DEF HandleCursorsFresh, cursor
<1>11. CursorsBehindIngester'
  BY <1>1, <1>7, <1>8 DEF BeforeReorgs, CursorsBehindIngester, cursor
<1>12. BatchesArePrefixes'
  BY <1>1, <1>2 DEF BeforeReorgs, BatchesArePrefixes, StoredFrom
<1>13. StatesMatchCursor'
  <2>1. ASSUME NEW e \in Events, WritesState(e)
        PROVE  state_versions'[e] =
                  IF e \in events /\ e.block_number < cursor'[e.row] THEN 1 ELSE 0
    <3>1. state_versions[e] = IF e \in events /\ e.block_number < cursor[e.row] THEN 1 ELSE 0
      BY <2>1, <1>1 DEF BeforeReorgs, StatesMatchCursor, cursor
    <3>2. state_versions'[e] = IF e \in batch[c] THEN state_versions[e] + 1 ELSE state_versions[e]
      BY <2>1, <1>1 DEF CommitTransaction
    <3>3. e.row \in ContractAddresses /\ e.block_number \in Nat
      BY Constants
    <3>4. CASE e \in batch[c]
      <4>1. ~ (e.block_number < cursor[e.row])
        BY <3>3, <3>4, <1>5, <1>6
      <4> QED BY <4>1, <3>1, <3>2, <3>4, <1>5, <1>8
    <3>5. CASE e \notin batch[c] /\ e.row = row
      <4>1. e.block_number < cursor[row] => e.block_number < cursor'[row]
        <5>1. cursor[row] <= cursor'[row]
          <6>1. CASE batch[c] = {}
            BY <6>1, <1>3, <1>6 DEF CommitTransaction, cursors, cursor
          <6>2. CASE batch[c] # {}
            BY <6>2, <1>3, <1>5, <1>6, <1>8
          <6> QED BY <6>1, <6>2
        <5> QED BY <5>1, <3>3, <1>3, <1>6
      <4>2. e \in events /\ e.block_number < cursor'[row] => e.block_number < cursor[row]
        BY <3>5, <1>8
      <4> QED BY <4>1, <4>2, <3>1, <3>2, <3>5
    <3>6. CASE e \notin batch[c] /\ e.row # row
      BY <3>1, <3>2, <3>3, <3>6, <1>7
    <3> QED BY <3>4, <3>5, <3>6
  <2> QED BY <1>1, <2>1 DEF StatesMatchCursor, WritesState, cursor
<1> QED BY <1>1, <1>9, <1>10, <1>11, <1>12, <1>13 DEF BeforeReorgs

\* Rows of chaindexing_reorged_blocks are never deleted.
LEMMA RecordsKept ==
    ASSUME [Next]_vars, reorged_blocks' = {}
    PROVE  reorged_blocks = {}
BY DEF Next, vars, ingester, IngestEvents, ReorgChain, HandleEvents, StreamContractAddresses,
       BeginTransaction, HandleEvent, CommitTransaction, HandleChainReorg,
       LoadReorgedBlocks, BacktrackStates, CommitReorg, Crash

LEMMA NextStatesInv == StatesInv /\ BatchesEndWithBlocks /\ [Next]_vars => StatesInv'
<1> SUFFICES ASSUME StatesInv, BatchesEndWithBlocks, [Next]_vars, reorged_blocks' = {}
             PROVE  BeforeReorgs'
  BY NextTypeOK DEF StatesInv
<1>1. TypeOK /\ TypeOK'
  BY NextTypeOK DEF StatesInv
<1>2. reorged_blocks = {}
  BY RecordsKept
<1>3. BeforeReorgs
  BY <1>2 DEF StatesInv
<1>4. CASE UNCHANGED vars
  BY <1>3, <1>4
     DEF vars, ingester, tables, cursors, subtask, reorg_loop, BeforeReorgs, RowsOfChain,
         RowsStreamedOnce, HandleCursorsFresh, CursorsBehindIngester, BatchesArePrefixes,
         StoredFrom, StatesMatchCursor, WritesState
<1>5. ASSUME NEW r \in ContractAddresses, NEW b \in BlockNumbers, IngestEvents(r, b)
      PROVE  BeforeReorgs'
  BY <1>1, <1>2, <1>3, <1>5, IngestKeepsBeforeReorgs
<1>6. ASSUME NEW c \in ChainIds, ReorgChain(c)
      PROVE  FALSE
  BY <1>6 DEF ReorgChain
<1>7. ASSUME NEW c \in ChainIds, HandleEvents(c)
      PROVE  BeforeReorgs'
  BY <1>1, <1>2, <1>3, <1>7, StreamKeepsBeforeReorgs, BeginKeepsBeforeReorgs,
     HandleEventKeepsBeforeReorgs, CommitKeepsBeforeReorgs DEF HandleEvents
<1>8. CASE HandleChainReorg
  BY <1>2, <1>3, <1>8 DEF BeforeReorgs, HandleChainReorg, LoadReorgedBlocks, BacktrackStates,
                          CommitReorg, UnhandledReorgedBlocks
<1>9. CASE Crash
  <2>1. /\ UNCHANGED <<ingested, events, reorged_blocks, next_block_number_to_handle_from,
                       state_versions>>
        /\ reorg_pc' = "load"
        /\ \A c \in ChainIds : /\ pc'[c] = "stream" /\ contract_addresses'[c] = {}
                               /\ batch'[c] = {}
    BY <1>9 DEF Crash, ingester, tables, cursors
  <2> QED BY <1>3, <2>1
         DEF BeforeReorgs, RowsOfChain, RowsStreamedOnce, HandleCursorsFresh,
             CursorsBehindIngester, BatchesArePrefixes, StatesMatchCursor, WritesState
<1> QED BY <1>4, <1>5, <1>6, <1>7, <1>8, <1>9 DEF Next

\* As long as no batch leaves events of its last block behind, and until the first
\* re-organization, each event behind its row's cursor has exactly one state version
\* and no other event has any, wherever the process dies: the cut of a block by LIMIT
\* is the only way in which an event can be lost or handled twice.
THEOREM StatesFollowCursor == Spec /\ []BatchesEndWithBlocks => []StatesMatchCursor
<1>1. Init => StatesInv
  BY InitTypeOK, InitBeforeReorgs DEF StatesInv
<1>2. StatesInv /\ BatchesEndWithBlocks /\ [Next]_vars => StatesInv'
  BY NextStatesInv
<1>3. StatesInv => StatesMatchCursor
  BY DEF StatesInv, BeforeReorgs, StatesMatchCursor
<1> QED BY <1>1, <1>2, <1>3, PTL DEF Spec

\* A contract that emits at most one event per block.
OneEventPerBlock ==
    \A e, f \in Events :
        e.row = f.row /\ e.block_number = f.block_number /\ e.fork = f.fork => e = f

\* While nothing re-organizes, what is stored is on the one version of the chain.
LEMMA OneVersionStep ==
    ASSUME reorged_blocks' = {}, OneVersionStored, [Next]_vars
    PROVE  OneVersionStored'
<1>1. ASSUME NEW r \in ContractAddresses, NEW b \in BlockNumbers, IngestEvents(r, b)
      PROVE  OneVersionStored'
  BY <1>1 DEF IngestEvents, OneVersionStored, IsCanonical
<1>2. ASSUME UNCHANGED <<fork, events>>  PROVE OneVersionStored'
  BY <1>2 DEF OneVersionStored, IsCanonical
<1>3. ASSUME NEW c \in ChainIds, ReorgChain(c)  PROVE FALSE
  BY <1>3 DEF ReorgChain
<1>4. ASSUME NEW c \in ChainIds, HandleEvents(c)  PROVE UNCHANGED <<fork, events>>
  BY <1>4 DEF HandleEvents, StreamContractAddresses, BeginTransaction, HandleEvent,
              CommitTransaction, ingester
<1>5. CASE HandleChainReorg
  BY <1>2, <1>5 DEF HandleChainReorg, LoadReorgedBlocks, BacktrackStates, CommitReorg, ingester
<1>6. CASE Crash \/ UNCHANGED vars
  BY <1>2, <1>6 DEF Crash, vars, ingester
<1> QED BY <1>1, <1>2, <1>3, <1>4, <1>5, <1>6 DEF Next

LEMMA OneEventEndsItsBlock ==
    ASSUME OneEventPerBlock, StatesInv, reorged_blocks = {} => OneVersionStored
    PROVE  BatchesEndWithBlocks
<1> SUFFICES ASSUME reorged_blocks = {}, NEW c \in ChainIds, NEW e \in batch[c], NEW f \in events,
                    f.row = e.row, f.block_number = e.block_number
             PROVE  f \in batch[c]
  BY DEF BatchesEndWithBlocks
<1>1. e \in events
  <2>1. pc[c] = "txn" /\ batch[c] \subseteq StoredFrom(contract_address[c].row,
                                                       contract_address[c].handle_from)
    BY DEF StatesInv, BeforeReorgs, BatchesArePrefixes
  <2> QED BY <2>1 DEF StoredFrom
<1>2. e \in Events /\ f \in Events
  BY <1>1 DEF StatesInv, TypeOK
<1>3. e.fork = f.fork
  BY <1>1 DEF OneVersionStored, IsCanonical
<1> QED BY <1>2, <1>3 DEF OneEventPerBlock

\* For contracts that emit at most one event per block, nothing else is needed: no
\* batch size cuts their blocks.
THEOREM StatesFollowCursorPerBlock ==
    ASSUME OneEventPerBlock
    PROVE  Spec => []StatesMatchCursor
<1> DEFINE I == StatesInv /\ (reorged_blocks = {} => OneVersionStored)
<1>1. Init => I
  BY InitTypeOK, InitBeforeReorgs DEF StatesInv, Init, OneVersionStored
<1>2. I /\ [Next]_vars => I'
  <2> SUFFICES ASSUME I, [Next]_vars PROVE I'
    OBVIOUS
  <2>1. StatesInv'
    BY OneEventEndsItsBlock, NextStatesInv
  <2>2. ASSUME reorged_blocks' = {}  PROVE OneVersionStored'
    <3>1. reorged_blocks = {}
      BY <2>2, RecordsKept
    <3> QED BY <2>2, <3>1, OneVersionStep
  <2> QED BY <2>1, <2>2
<1>3. I => StatesMatchCursor
  BY DEF StatesInv, BeforeReorgs, StatesMatchCursor
<1> HIDE DEF I
<1> QED BY <1>1, <1>2, <1>3, PTL DEF Spec
=============================================================================
