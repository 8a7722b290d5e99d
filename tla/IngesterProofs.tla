--------------------------- MODULE IngesterProofs ---------------------------
(***************************************************************************)
(* Theorems about Ingester, for every set of chains, contract addresses,   *)
(* logs and branches, every confirmation count and batch size, and with    *)
(* none of the bounds TLC needs.                                           *)
(***************************************************************************)
EXTENDS Ingester, SequenceTheorems, OrderLemmas

-----------------------------------------------------------------------------
(* Lemmas about the operators *)

\* get_earliest_block_number returns the block of one of the changed events,
\* and none of them lies before it.
LEMMA EarliestBlockNumberIsLeast ==
    ASSUME NEW changed \in SUBSET Logs, changed # {}
    PROVE  /\ EarliestBlockNumber(changed) \in BlockNumbers
           /\ \E l \in changed : l.block_number = EarliestBlockNumber(changed)
           /\ \A l \in changed : EarliestBlockNumber(changed) <= l.block_number
<1> DEFINE S == {l.block_number : l \in changed}
<1>1. S \in SUBSET BlockNumbers /\ S # {} /\ BlockNumbers \subseteq Nat
  BY LogsAssumption, BoundsAssumption DEF BlockNumbers
<1>2. PICK n \in S : \A k \in S : n <= k
  BY <1>1, LeastNatural
<1>3. \E b \in BlockNumbers : /\ \E l \in changed : l.block_number = b
                              /\ \A l \in changed : b <= l.block_number
  BY <1>1, <1>2
<1> QED BY <1>3 DEF EarliestBlockNumber

LEMMA FilterTypes ==
    ASSUME NEW as \in SUBSET Addresses, NEW current \in Nat
    PROVE  /\ MainFilters(as, current) \subseteq Filters
           /\ ConfirmationFilters(as, current) \subseteq Filters
           /\ \A fs : RemoveAlreadyIngested(fs) \subseteq fs
<1>1. ASSUME NEW a \in as
      PROVE  /\ a.row \in ContractAddresses /\ a.next \in Nat
             /\ a.row.start_block_number \in Nat
             /\ MainToBlock(a.next, current) \in Nat
             /\ ConfirmationFromBlock(a.next, a.row.start_block_number) \in Nat
             /\ ConfirmationToBlock(a.next) \in Nat
  <2>1. a.row \in ContractAddresses /\ a.next \in Nat
    BY DEF Addresses
  <2>2. a.row.start_block_number \in Nat
    BY <2>1, ContractAddressesAssumption
  <2>3. MainToBlock(a.next, current) \in Nat
    BY <2>1, BlocksPerBatchAssumption DEF MainToBlock, Smaller
  <2>4. DeductFrom(a.next, a.row.start_block_number) \in Nat
    BY <2>1, <2>2, MinConfirmationCountAssumption DEF DeductFrom, Larger
  <2> QED BY <2>1, <2>2, <2>3, <2>4, BlocksPerBatchAssumption
          DEF ConfirmationFromBlock, ConfirmationToBlock
<1>2. ASSUME NEW f \in MainFilters(as, current)  PROVE f \in Filters
  <2>1. PICK a \in as :
          f = [row |-> a.row, from |-> a.next, to |-> MainToBlock(a.next, current)]
    BY <1>2 DEF MainFilters, Configured
  <2> QED BY <1>1, <2>1 DEF Filters
<1>3. ASSUME NEW f \in ConfirmationFilters(as, current)  PROVE f \in Filters
  <2>1. PICK a \in as :
          f = [row |-> a.row, from |-> ConfirmationFromBlock(a.next, a.row.start_block_number),
                              to   |-> ConfirmationToBlock(a.next)]
    BY <1>3 DEF ConfirmationFilters, Configured
  <2> QED BY <1>1, <2>1 DEF Filters
<1>4. \A fs : RemoveAlreadyIngested(fs) \subseteq fs
  BY DEF RemoveAlreadyIngested
<1> QED BY <1>2, <1>3, <1>4

LEMMA ChainFacts ==
    ASSUME chain_at \in DOMAIN ChainsInOrder
    PROVE  chain \in ChainIds
  BY ChainsAssumption DEF chain

\* The bounds of the stream: MIN(id) and MAX(id), or 0 for a chain without rows.
LEMMA StreamBounds ==
    ASSUME NEW rows \in SUBSET ContractAddresses
    PROVE  MinId(rows) \in Nat /\ MaxId(rows) \in Nat
<1> DEFINE S == {r.id : r \in rows}
<1>1. PICK last \in ContractAddresses : \A s \in ContractAddresses : s.id <= last.id
  BY ContractAddressesAssumption
<1>2. last.id \in Nat /\ \A r \in rows : r.id \in Nat /\ r.id <= last.id
  BY <1>1, ContractAddressesAssumption
<1>3. S \in SUBSET Nat /\ S \in SUBSET (0..last.id)
  BY <1>2
<1>4. CASE rows = {}
  BY <1>4 DEF MinId, MaxId
<1>5. CASE rows # {}
  <2>1. S # {}
    BY <1>5
  <2>2. \E r \in rows : \A s \in rows : r.id <= s.id
    <3>1. PICK n \in S : \A k \in S : n <= k
      <4> HIDE DEF S
      <4> QED BY <1>3, <2>1, LeastNatural
    <3> QED BY <3>1
  <2>3. \E r \in rows : \A s \in rows : s.id <= r.id
    <3>1. PICK n \in S : \A k \in S : k <= n
      <4> HIDE DEF S
      <4> QED BY <1>2, <1>3, <2>1, GreatestNatural
    <3> QED BY <3>1
  <2> QED BY <1>2, <1>5, <2>2, <2>3 DEF MinId, MaxId
<1> QED BY <1>4, <1>5

LEMMA CreatedType ==
    ASSUME NEW table \in [Logs -> Nat], NEW S  PROVE WithCreated(table, S) \in [Logs -> Nat]
  BY DEF WithCreated

LEMMA DeletedType ==
    ASSUME NEW table \in [Logs -> Nat], NEW S  PROVE WithDeleted(table, S) \in [Logs -> Nat]
  BY DEF WithDeleted

LEMMA PrunedType ==
    ASSUME NEW table \in [Logs -> Nat], NEW n, NEW c  PROVE WithPruned(table, n, c) \in [Logs -> Nat]
  BY DEF WithPruned

LEMMA BranchesHoldBlocks ==
    \A branch \in Branches : \A b \in BlockNumbers : branch[b] \in BlockHashes
  BY DEF BlockHashes

-----------------------------------------------------------------------------
(* Type correctness *)

LEMMA InitTypeOK == Init => TypeOK
<1> SUFFICES ASSUME Init PROVE TypeOK
  OBVIOUS
<1>1. 1 \in DOMAIN ChainsInOrder /\ chain_at \in DOMAIN ChainsInOrder
  BY ChainsAssumption DEF Init
<1>3. served \subseteq BlockHashes
  <2>1. \A c \in ChainIds : canonical[c] \in Branches
    BY DEF Init, Branches
  <2>2. 0..InitialBlockNumber \subseteq BlockNumbers
    BY BoundsAssumption DEF BlockNumbers
  <2> QED BY <2>1, <2>2, BranchesHoldBlocks DEF Init
<1>4. next_block_number_to_ingest_from \in [ContractAddresses -> Nat]
  BY ContractAddressesAssumption DEF Init
<1> QED BY <1>1, <1>3, <1>4, ContractAddressesAssumption, BoundsAssumption
        DEF Init, TypeOK, BlockNumbers, Filters, Addresses

\* The steps of the environment.
LEMMA EnvironmentTypeOK ==
    ASSUME TypeOK
    PROVE  /\ \A c \in ChainIds : MineBlock(c) => TypeOK'
           /\ \A c \in ChainIds : Reorg(c) => TypeOK'
           /\ \A r \in ContractAddresses : IncludeContract(r) => TypeOK'
           /\ Crash => TypeOK'
<1> USE DEF TypeOK, provider, database, locals, chain
<1>1. ASSUME NEW c \in ChainIds, MineBlock(c)  PROVE TypeOK'
  <2>1. height[c] + 1 \in BlockNumbers /\ canonical[c] \in Forks[c]
    BY <1>1, BoundsAssumption DEF MineBlock, BlockNumbers
  <2>2. canonical[c][height[c] + 1] \in BlockHashes
    BY <2>1, BranchesHoldBlocks DEF Branches
  <2> QED BY <1>1, <2>1, <2>2 DEF MineBlock
<1>2. ASSUME NEW c \in ChainIds, Reorg(c)  PROVE TypeOK'
  <2>1. PICK fork \in Forks[c] :
          /\ canonical' = [canonical EXCEPT ![c] = fork]
          /\ served' = served \cup {fork[b] : b \in 0..height[c]}
    BY <1>2 DEF Reorg
  <2>2. {fork[b] : b \in 0..height[c]} \subseteq BlockHashes
    <3>1. 0..height[c] \subseteq BlockNumbers
      BY BoundsAssumption DEF BlockNumbers
    <3>2. fork \in Branches
      BY <2>1 DEF Branches
    <3> QED BY <3>1, <3>2, BranchesHoldBlocks
  <2>3. canonical' \in [ChainIds -> Branches] /\ \A d \in ChainIds : canonical'[d] \in Forks[d]
    BY <2>1 DEF Branches
  <2> QED BY <1>2, <2>1, <2>2, <2>3 DEF Reorg
<1>3. ASSUME NEW r \in ContractAddresses, IncludeContract(r)  PROVE TypeOK'
  BY <1>3 DEF IncludeContract
<1>4. ASSUME Crash  PROVE TypeOK'
  <2>1. chain_at' \in DOMAIN ChainsInOrder
    BY <1>4, ChainsAssumption DEF Crash
  <2> QED BY <1>4, <2>1 DEF Crash
<1> QED BY <1>1, <1>2, <1>3, <1>4

\* The steps of the subtask.
LEMMA SubtaskTypeOK ==
    ASSUME TypeOK
    PROVE  Ingest => TypeOK'
<1> USE DEF TypeOK, provider, database, locals
<1>1. ASSUME FetchCurrentBlockNumber  PROVE TypeOK'
  <2>1. chain \in ChainIds /\ height[chain] \in Nat /\ 0 \in Nat
    BY ChainFacts, BoundsAssumption DEF BlockNumbers
  <2>2. mined' \in [ChainIds -> Nat] /\ current_block_number' \in Nat
    BY <1>1, <2>1 DEF FetchCurrentBlockNumber
  <2> QED BY <1>1, <2>2 DEF FetchCurrentBlockNumber, chain
<1>2. ASSUME StreamChunk  PROVE TypeOK'
  <2> DEFINE rows == RowsBetween(chain, from, from + ChunkSize)
  <2>1. from' \in Nat /\ to' \in Nat
    BY <1>2, ChunkSizeAssumption DEF StreamChunk
  <2>2. addresses' \subseteq Addresses
    <3>1. addresses' = FilterUningested(rows, current_block_number)
      BY <1>2 DEF StreamChunk
    <3>2. rows \subseteq ContractAddresses
      BY DEF RowsBetween, RowsOf
    <3> HIDE DEF rows
    <3>3. ASSUME NEW r \in rows
          PROVE  [row |-> r, next |-> next_block_number_to_ingest_from[r]] \in Addresses
      BY <3>2 DEF Addresses
    <3> QED BY <3>1, <3>3 DEF FilterUningested
  <2>3. filters' \subseteq Filters /\ pending' \subseteq filters'
    BY <1>2, <2>2, FilterTypes DEF StreamChunk
  <2> QED BY <1>2, <2>1, <2>2, <2>3 DEF StreamChunk
<1>3. ASSUME NEW f \in pending, FetchLogs(f)  PROVE TypeOK'
  BY <1>3 DEF FetchLogs, GetLogs, chain
<1>4. ASSUME IngestEvents  PROVE TypeOK'
  <2>1. events' \in [Logs -> Nat]
    BY <1>4 DEF IngestEvents, WithCreated
  <2>2. next_block_number_to_ingest_from' \in [ContractAddresses -> Nat]
    <3>1. ASSUME NEW r \in ContractAddresses, NEW g \in filters, g.row = r
          PROVE  (CHOOSE f \in filters : f.row = r).to + 1 \in Nat
      <4>1. (CHOOSE f \in filters : f.row = r) \in Filters
        BY <3>1
      <4> QED BY <4>1 DEF Filters
    <3> QED BY <1>4, <3>1 DEF IngestEvents, WithUpdatedCursors
  <2>3. filters' \subseteq Filters /\ pending' \subseteq filters'
    BY <1>4, FilterTypes DEF IngestEvents
  <2> QED BY <1>4, <2>1, <2>2, <2>3 DEF IngestEvents, chain
<1>5. ASSUME HandleChainReorg  PROVE TypeOK'
  <2> DEFINE ingested == AlreadyIngestedEvents(filters)
             added    == AddedEvents(ingested, logs)
             removed  == RemovedEvents(ingested, logs)
  <2>1. added \subseteq Logs /\ removed \subseteq Logs
    BY DEF AddedEvents, RemovedEvents, AlreadyIngestedEvents, GetEvents
  <2>2. \/ added \cup removed = {} /\ UNCHANGED <<events, reorged_blocks>>
        \/ /\ added \cup removed # {}
           /\ events' = WithCreated(WithDeleted(events, removed), added)
           /\ reorged_blocks' = Append(reorged_blocks,
                 [chain_id |-> chain, block_number |-> EarliestBlockNumber(added \cup removed)])
    BY <1>5 DEF HandleChainReorg
  <2> HIDE DEF ingested, added, removed
  <2>3. events' \in [Logs -> Nat]
    <3>1. WithDeleted(events, removed) \in [Logs -> Nat]
      BY DeletedType
    <3>2. WithCreated(WithDeleted(events, removed), added) \in [Logs -> Nat]
      BY <3>1, CreatedType
    <3> QED BY <2>2, <3>2
  <2>4. reorged_blocks' \in Seq([chain_id : ChainIds, block_number : BlockNumbers])
    <3>1. added \cup removed # {} => EarliestBlockNumber(added \cup removed) \in BlockNumbers
      BY <2>1, EarliestBlockNumberIsLeast
    <3>2. chain \in ChainIds
      BY ChainFacts
    <3> DEFINE T == [chain_id : ChainIds, block_number : BlockNumbers]
               row == [chain_id     |-> chain,
                       block_number |-> EarliestBlockNumber(added \cup removed)]
    <3>3. added \cup removed # {} => row \in T
      BY <3>1, <3>2
    <3>4. reorged_blocks \in Seq(T)
      OBVIOUS
    <3>5. reorged_blocks' = reorged_blocks \/ (row \in T /\ reorged_blocks' = Append(reorged_blocks, row))
      BY <2>2, <3>3
    <3>6. Seq(T) = Seq([chain_id : ChainIds, block_number : BlockNumbers])
      OBVIOUS
    <3> HIDE DEF T, row
    <3>7. reorged_blocks' \in Seq(T)
      <4>1. row \in T => Append(reorged_blocks, row) \in Seq(T)
        BY <3>4, AppendProperties
      <4> QED BY <3>4, <3>5, <4>1
    <3> QED BY <3>6, <3>7
  <2>5. stored_early' \subseteq Logs
    <3>1. \/ UNCHANGED stored_early
          \/ stored_early' = stored_early \cup {l \in added : l.block_number > current_block_number}
      BY <1>5 DEF HandleChainReorg, added, removed, ingested
    <3> QED BY <2>1, <3>1
  <2> QED BY <1>5, <2>3, <2>4, <2>5 DEF HandleChainReorg, chain
<1>6. ASSUME FinishPass  PROVE TypeOK'
  <2>1. chain \in ChainIds /\ chain_at' \in DOMAIN ChainsInOrder
    BY <1>6, ChainFacts, ChainsAssumption DEF FinishPass
  <2>3. GetMinBlockNumber(current_block_number) \in Nat
    BY BoundsAssumption DEF GetMinBlockNumber
  <2>4. events' \in [Logs -> Nat] /\ pruned_below' \in [ChainIds -> Nat]
    <3>1. \/ UNCHANGED <<events, pruned_below>>
          \/ /\ events' = WithPruned(events, GetMinBlockNumber(current_block_number), chain)
             /\ pruned_below' = [pruned_below EXCEPT ![chain] =
                                    Larger(@, GetMinBlockNumber(current_block_number))]
      BY <1>6 DEF FinishPass
    <3>2. events' \in [Logs -> Nat]
      <4>1. WithPruned(events, GetMinBlockNumber(current_block_number), chain) \in [Logs -> Nat]
        BY PrunedType
      <4> QED BY <3>1, <4>1
    <3>3. pruned_below' \in [ChainIds -> Nat]
      BY <2>1, <2>3, <3>1 DEF Larger
    <3> QED BY <3>2, <3>3
  <2> QED BY <1>6, <2>1, <2>4 DEF FinishPass
<1>7. ASSUME OpenStream  PROVE TypeOK'
  <2>1. from' \in Nat /\ to' \in Nat
    BY <1>7, StreamBounds DEF OpenStream, RowsOf
  <2> QED BY <1>7, <2>1 DEF OpenStream
<1> QED BY <1>1, <1>2, <1>3, <1>4, <1>5, <1>6, <1>7 DEF Ingest

LEMMA NextTypeOK == TypeOK /\ [Next]_vars => TypeOK'
<1> SUFFICES ASSUME TypeOK, [Next]_vars PROVE TypeOK'
  OBVIOUS
<1>1. CASE UNCHANGED vars
  BY <1>1 DEF TypeOK, vars, provider, database, locals, chain
<1>2. CASE Next
  BY <1>2, EnvironmentTypeOK, SubtaskTypeOK DEF Next
<1> QED BY <1>1, <1>2

\* Every variable keeps its type, for every value of the constants: no row with
\* an impossible block number or chain is ever written, nor a negative cursor.
THEOREM TypeCorrect == Spec => []TypeOK
<1>1. Init => TypeOK
  BY InitTypeOK
<1>2. TypeOK /\ [Next]_vars => TypeOK'
  BY NextTypeOK
<1> QED BY <1>1, <1>2, PTL DEF Spec

-----------------------------------------------------------------------------
(* Events of a block are stored together *)

\* Two events of one block the same row subscribes to.
Siblings(l, m) ==
    /\ l \in Logs /\ m \in Logs
    /\ \E r \in ContractAddresses :
          /\ r.contract_name \in ContractNames
          /\ BelongsTo(l, r) /\ BelongsTo(m, r)
          /\ l.abi \in GetEventAbis(r.contract_name) /\ m.abi \in GetEventAbis(r.contract_name)
    /\ l.block_hash = m.block_hash

LEMMA SiblingsShareBlock ==
    ASSUME NEW l, NEW m, Siblings(l, m)
    PROVE  /\ Siblings(m, l)
           /\ l.chain_id = m.chain_id /\ l.address = m.address
           /\ l.block_number = m.block_number
  BY LogsAssumption DEF Siblings, BelongsTo

LEMMA AtomicityBySiblings ==
    /\ BlockAtomic <=> \A l, m : Siblings(l, m) => events[l] = events[m]
    /\ LogsAtomic <=> \A l, m : Siblings(l, m) => (l \in logs <=> m \in logs)
  BY DEF BlockAtomic, LogsAtomic, Siblings

\* A filter asks for a log and its siblings alike, and so does the provider
\* answer: one eth_getLogs never splits a block.
LEMMA GetLogsAtomic ==
    ASSUME TypeOK, NEW f \in filters, f.row.contract_name \in ContractNames,
           NEW l, NEW m, Siblings(l, m), l \in GetLogs(f)
    PROVE  m \in GetLogs(f)
<1>1. f.row \in ContractAddresses /\ l \in Logs /\ m \in Logs
  BY DEF TypeOK, Filters, Siblings
<1>2. PICK r \in ContractAddresses :
        /\ BelongsTo(l, r) /\ BelongsTo(m, r)
        /\ m.abi \in GetEventAbis(r.contract_name)
  BY DEF Siblings
<1>3. r = f.row
  BY <1>1, <1>2, ContractAddressesAssumption DEF GetLogs, FilterMatches, BelongsTo
<1>4. FilterMatches(m, f)
  BY <1>2, <1>3, SiblingsShareBlock DEF GetLogs, FilterMatches, BelongsTo, IsInRange
<1>5. IsCanonical(m)
  BY <1>1, SiblingsShareBlock DEF GetLogs, IsCanonical, Siblings
<1> QED BY <1>1, <1>4, <1>5 DEF GetLogs

\* The comparison by ABI and block hash treats siblings alike.
LEMMA DifferenceAtomic ==
    ASSUME TypeOK, FiltersOfChain, LogsMatchFilters, LogsAtomic, BlockAtomic,
           NEW l, NEW m, Siblings(l, m),
           NEW ingested, ingested = AlreadyIngestedEvents(filters)
    PROVE  /\ l \in RemovedEvents(ingested, logs) => m \in RemovedEvents(ingested, logs)
           /\ l \in AddedEvents(ingested, logs) => m \in AddedEvents(ingested, logs)
<1>1. l \in Logs /\ m \in Logs /\ logs \subseteq Logs
  BY DEF TypeOK, Siblings
<1>2. \A a, b : Siblings(a, b) => (a \in ingested => b \in ingested)
  BY AtomicityBySiblings, SiblingsShareBlock DEF AlreadyIngestedEvents, GetEvents, Siblings, IsInRange
<1>3. \A a, b : Siblings(a, b) => (a \in logs => b \in logs)
  BY AtomicityBySiblings
<1>4. ASSUME NEW e \in Logs, IsSameEvent(m, e)  PROVE Siblings(e, l)
  BY <1>1, <1>4 DEF Siblings, IsSameEvent, BelongsTo
<1>6. ASSUME l \in RemovedEvents(ingested, logs)  PROVE m \in RemovedEvents(ingested, logs)
  <2>1. l \in ingested /\ \A p \in logs : ~ IsSameEvent(l, p)
    BY <1>6 DEF RemovedEvents
  <2>2. l \notin logs
    BY <2>1 DEF IsSameEvent
  <2>3. ASSUME NEW p \in logs, IsSameEvent(m, p)  PROVE FALSE
    <3>1. Siblings(p, l)
      BY <1>1, <1>4, <2>3
    <3> QED BY <1>3, <2>2, <3>1
  <2> QED BY <1>2, <2>1, <2>3 DEF RemovedEvents
<1>7. ASSUME l \in AddedEvents(ingested, logs)  PROVE m \in AddedEvents(ingested, logs)
  <2>1. l \in logs /\ \A i \in ingested : ~ IsSameEvent(l, i)
    BY <1>7 DEF AddedEvents
  <2>2. l \notin ingested
    BY <2>1 DEF IsSameEvent
  <2>3. ASSUME NEW i \in ingested, IsSameEvent(m, i)  PROVE FALSE
    <3>1. i \in Logs
      BY DEF AlreadyIngestedEvents, GetEvents
    <3>2. Siblings(i, l)
      BY <1>1, <1>4, <2>3, <3>1
    <3> QED BY <1>2, <2>2, <3>2
  <2> QED BY <1>3, <2>1, <2>3 DEF AddedEvents
<1> QED BY <1>6, <1>7

LEMMA FilterRows ==
    ASSUME NEW as, NEW current
    PROVE  /\ \A f \in MainFilters(as, current) : \E a \in as :
                  f.row = a.row /\ a.row.contract_name \in ContractNames
           /\ \A f \in ConfirmationFilters(as, current) : \E a \in as :
                  f.row = a.row /\ a.row.contract_name \in ContractNames
<1>1. ASSUME NEW f \in MainFilters(as, current)
      PROVE  \E a \in as : f.row = a.row /\ a.row.contract_name \in ContractNames
  <2>1. PICK a \in Configured(as) :
          f = [row |-> a.row, from |-> a.next, to |-> MainToBlock(a.next, current)]
    BY <1>1 DEF MainFilters
  <2> QED BY <2>1 DEF Configured
<1>2. ASSUME NEW f \in ConfirmationFilters(as, current)
      PROVE  \E a \in as : f.row = a.row /\ a.row.contract_name \in ContractNames
  <2>1. PICK a \in Configured(as) :
          f = [row |-> a.row, from |-> ConfirmationFromBlock(a.next, a.row.start_block_number),
                              to   |-> ConfirmationToBlock(a.next)]
    BY <1>2 DEF ConfirmationFilters
  <2> QED BY <2>1 DEF Configured
<1> QED BY <1>1, <1>2

\* The filters a subtask works on are those of the chain it visits.
LEMMA FiltersOfChainStep == TypeOK /\ FiltersOfChain /\ [Next]_vars => FiltersOfChain'
<1> SUFFICES ASSUME TypeOK, FiltersOfChain, [Next]_vars PROVE FiltersOfChain'
  OBVIOUS
<1> USE DEF FiltersOfChain, provider, database, locals
<1>1. CASE UNCHANGED <<pc, locals>>
  BY <1>1 DEF chain
<1>2. ASSUME NEW c \in ChainIds, MineBlock(c) \/ Reorg(c)  PROVE FiltersOfChain'
  BY <1>1, <1>2 DEF MineBlock, Reorg
<1>3. ASSUME NEW r \in ContractAddresses, IncludeContract(r)  PROVE FiltersOfChain'
  BY <1>1, <1>3 DEF IncludeContract
<1>4. CASE Crash
  BY <1>4 DEF Crash
<1>5. CASE FetchCurrentBlockNumber
  BY <1>5 DEF FetchCurrentBlockNumber, chain
<1>6. CASE StreamChunk
  <2> DEFINE rows == RowsBetween(chain, from, from + ChunkSize)
  <2>1. /\ chain' = chain /\ pc' = "ingest"
        /\ addresses' = FilterUningested(rows, current_block_number)
        /\ filters' = RemoveAlreadyIngested(MainFilters(addresses', current_block_number))
    BY <1>6 DEF StreamChunk, chain
  <2>2. \A r \in rows : r.chain_id = chain
    BY DEF RowsBetween, RowsOf
  <2> HIDE DEF rows
  <2>3. \A a \in addresses' : a.row.chain_id = chain
    BY <2>1, <2>2 DEF FilterUningested
  <2>4. \A f \in filters' : f \in MainFilters(addresses', current_block_number)
    BY <2>1 DEF RemoveAlreadyIngested
  <2>5. \A f \in filters' : f.row.chain_id = chain /\ f.row.contract_name \in ContractNames
    BY <2>3, <2>4, FilterRows
  <2> QED BY <2>1, <2>3, <2>5
<1>7. ASSUME NEW f \in pending, FetchLogs(f)  PROVE FiltersOfChain'
  BY <1>7 DEF FetchLogs, chain
<1>8. CASE IngestEvents
  <2>1. /\ chain' = chain /\ pc' = "confirm" /\ addresses' = addresses
        /\ filters' = ConfirmationFilters(addresses, current_block_number)
    BY <1>8 DEF IngestEvents, chain
  <2>2. \A f \in filters' : f.row.chain_id = chain /\ f.row.contract_name \in ContractNames
    BY <2>1, FilterRows
  <2> QED BY <2>1, <2>2
<1>9. CASE HandleChainReorg
  BY <1>9 DEF HandleChainReorg, chain
<1>10. CASE FinishPass
  BY <1>10 DEF FinishPass
<1>11. CASE OpenStream
  BY <1>11 DEF OpenStream, chain
<1>12. CASE UNCHANGED vars
  BY <1>1, <1>12 DEF vars
<1> QED BY <1>2, <1>3, <1>4, <1>5, <1>6, <1>7, <1>8, <1>9, <1>10, <1>11, <1>12
    DEF Next, Ingest

\* The logs a subtask has gathered are whole blocks of what its filters ask for.
LEMMA GatheredLogsStep ==
    ASSUME AtomicityInv, [Next]_vars
    PROVE  LogsMatchFilters' /\ LogsAtomic'
<1> USE DEF AtomicityInv, LogsMatchFilters, provider, database, locals
<1>1. CASE UNCHANGED <<filters, logs>>
  BY <1>1 DEF LogsAtomic, FilterMatches, IsInRange
<1>2. CASE logs' = {}
  BY <1>2 DEF LogsAtomic
<1>3. ASSUME NEW f \in pending, FetchLogs(f)  PROVE LogsMatchFilters' /\ LogsAtomic'
  <2>1. /\ f \in filters /\ filters' = filters /\ logs' = logs \cup GetLogs(f)
        /\ f.row.contract_name \in ContractNames
    BY <1>3 DEF FetchLogs, TypeOK, FiltersOfChain
  <2>2. LogsMatchFilters'
    BY <2>1 DEF GetLogs, FilterMatches, IsInRange
  <2>3. \A l, m : Siblings(l, m) => (l \in logs <=> m \in logs)
    BY AtomicityBySiblings
  <2>4. \A l, m : Siblings(l, m) /\ l \in GetLogs(f) => m \in GetLogs(f)
    BY <2>1, GetLogsAtomic
  <2>5. \A l, m : Siblings(l, m) => (l \in logs' <=> m \in logs')
    BY <2>1, <2>3, <2>4, SiblingsShareBlock
  <2> QED BY <2>2, <2>5 DEF LogsAtomic, Siblings
<1>4. CASE UNCHANGED vars
  BY <1>1, <1>4 DEF vars
<1>5. ASSUME NEW c \in ChainIds, MineBlock(c) \/ Reorg(c)  PROVE UNCHANGED <<filters, logs>>
  BY <1>5 DEF MineBlock, Reorg
<1>6. ASSUME NEW r \in ContractAddresses, IncludeContract(r)  PROVE UNCHANGED <<filters, logs>>
  BY <1>6 DEF IncludeContract
<1>7. Crash \/ StreamChunk \/ IngestEvents \/ HandleChainReorg => logs' = {}
  BY DEF Crash, StreamChunk, IngestEvents, HandleChainReorg
<1>8. FetchCurrentBlockNumber \/ OpenStream \/ FinishPass => UNCHANGED <<filters, logs>>
  BY DEF FetchCurrentBlockNumber, OpenStream, FinishPass
<1> QED BY <1>1, <1>2, <1>3, <1>4, <1>5, <1>6, <1>7, <1>8 DEF Next, Ingest

\* No transaction splits a block.
LEMMA BlockAtomicStep ==
    ASSUME AtomicityInv, [Next]_vars
    PROVE  BlockAtomic'
<1> USE DEF AtomicityInv, provider, database, locals
<1>1. \A l, m : Siblings(l, m) => events[l] = events[m]
  BY AtomicityBySiblings
<1> SUFFICES ASSUME NEW l, NEW m, Siblings(l, m)  PROVE events'[l] = events'[m]
  BY DEF BlockAtomic, Siblings
<1>2. l \in Logs /\ m \in Logs /\ events[l] = events[m] /\ Siblings(m, l)
  BY <1>1, SiblingsShareBlock DEF Siblings
<1>3. CASE UNCHANGED events
  BY <1>2, <1>3
<1>4. CASE IngestEvents
  <2>1. l \in logs <=> m \in logs
    BY AtomicityBySiblings
  <2> QED BY <1>2, <1>4, <2>1 DEF IngestEvents, WithCreated
<1>5. CASE HandleChainReorg
  <2> DEFINE ingested == AlreadyIngestedEvents(filters)
             added    == AddedEvents(ingested, logs)
             removed  == RemovedEvents(ingested, logs)
  <2>1. UNCHANGED events \/ events' = WithCreated(WithDeleted(events, removed), added)
    BY <1>5 DEF HandleChainReorg
  <2>2. (l \in removed <=> m \in removed) /\ (l \in added <=> m \in added)
    BY <1>2, DifferenceAtomic
  <2> HIDE DEF ingested, added, removed
  <2> QED BY <1>2, <2>1, <2>2 DEF WithCreated, WithDeleted
<1>6. CASE FinishPass
  <2>1. \/ UNCHANGED events
        \/ events' = WithPruned(events, GetMinBlockNumber(current_block_number), chain)
    BY <1>6 DEF FinishPass
  <2>2. l.block_number = m.block_number /\ l.chain_id = m.chain_id
    BY SiblingsShareBlock
  <2> QED BY <1>2, <2>1, <2>2 DEF WithPruned
<1>7. ASSUME NEW c \in ChainIds, MineBlock(c) \/ Reorg(c)  PROVE UNCHANGED events
  BY <1>7 DEF MineBlock, Reorg
<1>8. ASSUME NEW r \in ContractAddresses, IncludeContract(r)  PROVE UNCHANGED events
  BY <1>8 DEF IncludeContract
<1>9. ASSUME NEW f \in pending, FetchLogs(f)  PROVE UNCHANGED events
  BY <1>9 DEF FetchLogs
<1>10. Crash \/ FetchCurrentBlockNumber \/ OpenStream \/ StreamChunk \/ UNCHANGED vars
       => UNCHANGED events
  BY DEF Crash, FetchCurrentBlockNumber, OpenStream, StreamChunk, vars
<1> QED BY <1>3, <1>4, <1>5, <1>6, <1>7, <1>8, <1>9, <1>10 DEF Next, Ingest

LEMMA AtomicityInvariant == Spec => []AtomicityInv
<1>1. Init => AtomicityInv
  BY InitTypeOK DEF Init, AtomicityInv, FiltersOfChain, LogsMatchFilters, LogsAtomic, BlockAtomic
<1>2. AtomicityInv /\ [Next]_vars => AtomicityInv'
  BY NextTypeOK, FiltersOfChainStep, GatheredLogsStep, BlockAtomicStep DEF AtomicityInv
<1> QED BY <1>1, <1>2, PTL DEF Spec

\* Of a block and an address the table always holds all subscribed events or
\* none, whatever the chain does and whenever the process dies.
THEOREM BlocksStoredWhole == Spec => []BlockAtomic
<1>1. AtomicityInv => BlockAtomic
  BY DEF AtomicityInv
<1> QED BY <1>1, AtomicityInvariant, PTL

LEMMA RepairMirrorsAnswer ==
    ASSUME AtomicityInv, HandleChainReorg,
           NEW f \in filters, NEW l \in Logs, BelongsTo(l, f.row), IsInRange(l, f)
    PROVE  events'[l] > 0 <=> l \in logs
<1> DEFINE ingested == AlreadyIngestedEvents(filters)
           added    == AddedEvents(ingested, logs)
           removed  == RemovedEvents(ingested, logs)
<1> USE DEF AtomicityInv
<1>1. \/ added \cup removed = {} /\ events' = events
      \/ events' = WithCreated(WithDeleted(events, removed), added)
  BY DEF HandleChainReorg
<1>2. events[l] \in Nat /\ (l \in ingested <=> events[l] > 0)
  BY DEF TypeOK, AlreadyIngestedEvents, GetEvents, BelongsTo
<1>3. f.row \in ContractAddresses /\ f.row.contract_name \in ContractNames
  BY DEF TypeOK, Filters, FiltersOfChain
<1>4. ASSUME NEW p \in logs, IsSameEvent(p, l) \/ IsSameEvent(l, p)
      PROVE  Siblings(p, l)
  <2>1. PICK g \in filters : FilterMatches(p, g)
    BY DEF LogsMatchFilters
  <2>2. g.row = f.row
    BY <1>3, <1>4, <2>1, ContractAddressesAssumption
       DEF TypeOK, Filters, FilterMatches, BelongsTo, IsSameEvent
  <2> QED BY <1>3, <1>4, <2>1, <2>2
          DEF Siblings, TypeOK, FilterMatches, BelongsTo, IsSameEvent
<1>5. ASSUME l \in logs  PROVE l \notin removed /\ (l \in ingested \/ l \in added)
  <2>1. l \notin removed
    BY <1>5 DEF RemovedEvents, IsSameEvent
  <2>2. ASSUME NEW i \in ingested, IsSameEvent(l, i)  PROVE l \in ingested
    <3>1. i \in Logs /\ events[i] > 0
      BY DEF AlreadyIngestedEvents, GetEvents
    <3>2. Siblings(l, l) /\ Siblings(l, i)
      BY <1>4, <1>5, <2>2, <3>1 DEF Siblings, IsSameEvent, BelongsTo
    <3> QED BY <1>2, <3>1, <3>2, AtomicityBySiblings
  <2> QED BY <1>5, <2>1, <2>2 DEF AddedEvents
<1>6. ASSUME l \notin logs  PROVE l \notin added /\ (l \in ingested => l \in removed)
  <2>1. l \notin added
    BY <1>6 DEF AddedEvents
  <2>2. ASSUME NEW p \in logs, IsSameEvent(l, p)  PROVE FALSE
    BY <1>4, <1>6, <2>2, AtomicityBySiblings
  <2> QED BY <2>1, <2>2 DEF RemovedEvents
<1>7. events'[l] = IF l \in added THEN (IF l \in removed THEN 0 ELSE events[l]) + 1
                   ELSE IF l \in removed THEN 0 ELSE events[l]
  <2> HIDE DEF ingested, added, removed
  <2> QED BY <1>1 DEF WithCreated, WithDeleted
<1> HIDE DEF ingested, added, removed
<1> QED BY <1>2, <1>5, <1>6, <1>7

\* After a repair the re-fetched range of an address holds what the provider
\* answered, for every provider, every chain and every batch.
THEOREM RepairMirrorsProvider == Spec => ConfirmationMirrorsProvider
<1>1. ASSUME AtomicityInv, [Next]_vars, pc = "confirm", pc' = "stream",
             NEW f \in filters, NEW l \in Logs, BelongsTo(l, f.row), IsInRange(l, f)
      PROVE  events'[l] > 0 <=> l \in logs
  <2>1. HandleChainReorg
    BY <1>1 DEF Next, Ingest, MineBlock, Reorg, IncludeContract, Crash, FetchCurrentBlockNumber,
                OpenStream, StreamChunk, FetchLogs, IngestEvents, FinishPass, vars
  <2> QED BY <1>1, <2>1, RepairMirrorsAnswer
<1>2. AtomicityInv /\ [Next]_vars
      => [pc = "confirm" /\ pc' = "stream" =>
            \A f \in filters : \A l \in Logs :
              BelongsTo(l, f.row) /\ IsInRange(l, f) => (events'[l] > 0 <=> l \in logs)]_vars
  BY <1>1
<1> QED BY <1>2, AtomicityInvariant, PTL DEF Spec, ConfirmationMirrorsProvider

=============================================================================
