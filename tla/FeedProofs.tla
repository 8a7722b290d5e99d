----------------------------- MODULE FeedProofs -----------------------------
(***************************************************************************)
(* Ingester implements EventFeed, and no block behind an ingest cursor is  *)
(* forgotten, for every set of chains, contract addresses, logs and        *)
(* branches, whatever the chains do and whenever the process dies.         *)
(*                                                                         *)
(* One assumption is needed that the code does not make: no two contract   *)
(* addresses share their address on different chains.  Repo::get_events    *)
(* selects by the address alone, and the repair of one chain would delete  *)
(* the events of the other.                                                *)
(***************************************************************************)
EXTENDS IngesterProofs

AddressesNotShared ==
    \A r, s \in ContractAddresses : r.address = s.address => r = s

LogsAt(r, b) == {l \in logs : BelongsTo(l, r) /\ l.block_number = b}

-----------------------------------------------------------------------------
(* The inductive invariant *)

\* What the chains have served holds all they serve now, and neither a cursor
\* nor the block number fetched for a pass is ahead of them.
WithinHeight ==
    /\ \A c \in ChainIds : \A b \in BlockNumbers : b <= height[c] => canonical[c][b] \in served
    /\ \A r \in ContractAddresses :
          \/ next_block_number_to_ingest_from[r] = r.start_block_number
          \/ next_block_number_to_ingest_from[r] <= height[r.chain_id] + 1
    /\ current_block_number <= height[chain]

\* Every stored event belongs to some row.
StoredBelong ==
    \A l \in Logs : events[l] > 0 => \E r \in ContractAddresses : BelongsTo(l, r)

\* The rows of a chunk, each with one cursor and one filter.
OnePerRow ==
    /\ \A a \in addresses : a.row \in contract_addresses
    /\ \A a, b \in addresses : a.row = b.row => a = b
    /\ \A f, g \in filters : f.row = g.row => f = g
    /\ \A f \in filters : f.row \in contract_addresses

\* The range of a filter: what its row's cursor will pass, or blocks at or after
\* its start.
FilterRanges ==
    /\ pc = "ingest" => \A f \in filters :
          /\ f.from = next_block_number_to_ingest_from[f.row]
          /\ f.from <= f.to /\ f.to <= current_block_number
    /\ pc = "confirm" => \A f \in filters : f.row.start_block_number <= f.from
    /\ pc = "ingest" => \A a \in addresses : a.next = next_block_number_to_ingest_from[a.row]
    /\ \A a \in addresses : a.next <= current_block_number

\* An answer holds of each block in its range one whole version, or nothing
\* where the chain had not got that far.
AnswersAreVersions ==
    /\ \A l \in logs : \E f \in filters \ pending : FilterMatches(l, f)
    /\ \A f \in filters \ pending : \A b \in BlockNumbers : f.from <= b /\ b <= f.to =>
          \/ \E h \in ServedAt(f.row.chain_id, b) : LogsAt(f.row, b) = SubscribedLogs(f.row, h)
          \/ /\ pc = "confirm" /\ LogsAt(f.row, b) = {}
             /\ b >= next_block_number_to_ingest_from[f.row] /\ b > current_block_number

FeedInv ==
    /\ AtomicityInv
    /\ WithinHeight
    /\ StoredBelong
    /\ OnePerRow
    /\ FilterRanges
    /\ AnswersAreVersions

-----------------------------------------------------------------------------
(* The environment leaves the subtask alone, and the chains only gain blocks *)

LEMMA EnvironmentSteps ==
    ASSUME TypeOK
    PROVE  /\ \A c \in ChainIds : MineBlock(c) \/ Reorg(c) =>
                 /\ served \subseteq served'
                 /\ \A d \in ChainIds : height[d] <= height'[d]
                 /\ UNCHANGED <<database, pc, locals>>
           /\ \A r \in ContractAddresses : IncludeContract(r) =>
                 /\ contract_addresses' = contract_addresses \cup {r}
                 /\ UNCHANGED <<provider, next_block_number_to_ingest_from, events,
                                reorged_blocks, pruned_below, pc, locals>>
           /\ Crash => UNCHANGED <<provider, database>>
<1>1. \A c \in ChainIds : height[c] \in Nat
  BY BoundsAssumption DEF TypeOK, BlockNumbers
<1>2. ASSUME NEW c \in ChainIds, MineBlock(c)
      PROVE  /\ served \subseteq served'
             /\ \A d \in ChainIds : height[d] <= height'[d]
             /\ UNCHANGED <<database, pc, locals>>
  BY <1>1, <1>2 DEF MineBlock, TypeOK
<1>3. ASSUME NEW c \in ChainIds, Reorg(c)
      PROVE  /\ served \subseteq served'
             /\ \A d \in ChainIds : height[d] <= height'[d]
             /\ UNCHANGED <<database, pc, locals>>
  BY <1>1, <1>3 DEF Reorg, TypeOK
<1> QED BY <1>2, <1>3 DEF IncludeContract, Crash

LEMMA RowTypes ==
    ASSUME TypeOK, NEW r \in ContractAddresses
    PROVE  /\ r.chain_id \in ChainIds /\ r.start_block_number \in Nat
           /\ next_block_number_to_ingest_from[r] \in Nat
           /\ height[r.chain_id] \in Nat
  BY ContractAddressesAssumption, BoundsAssumption DEF TypeOK, BlockNumbers

\* What IngestEvents makes of the cursors: one past the end of a row's filter.
LEMMA CursorsPassFilters ==
    ASSUME TypeOK, OnePerRow, IngestEvents, NEW r \in ContractAddresses
    PROVE  /\ \A f \in filters : f.row = r => next_block_number_to_ingest_from'[r] = f.to + 1
           /\ (\A f \in filters : f.row # r) =>
                 next_block_number_to_ingest_from'[r] = next_block_number_to_ingest_from[r]
<1>1. next_block_number_to_ingest_from' =
        WithUpdatedCursors(next_block_number_to_ingest_from, filters)
  BY DEF IngestEvents
<1>2. ASSUME NEW f \in filters, f.row = r
      PROVE  (CHOOSE g \in filters : g.row = r) = f
  BY <1>2 DEF OnePerRow
<1> QED BY <1>1, <1>2 DEF WithUpdatedCursors

-----------------------------------------------------------------------------
(* Cursors stay behind the chain *)

LEMMA WithinHeightInit == Init => WithinHeight
<1> SUFFICES ASSUME Init PROVE WithinHeight
  OBVIOUS
<1>1. \A c \in ChainIds : \A b \in BlockNumbers : b <= height[c] => canonical[c][b] \in served
  BY BoundsAssumption DEF Init, BlockNumbers
<1>2. chain \in ChainIds /\ height[chain] \in Nat
  BY ChainsAssumption, BoundsAssumption DEF Init, chain, BlockNumbers
<1> QED BY <1>1, <1>2 DEF Init, WithinHeight

LEMMA WithinHeightStep ==
    ASSUME FeedInv, [Next]_vars
    PROVE  WithinHeight'
<1>1. TypeOK /\ TypeOK' /\ WithinHeight /\ OnePerRow
  BY NextTypeOK DEF FeedInv, AtomicityInv
<1>2. /\ \A c \in ChainIds : height[c] \in Nat /\ height'[c] \in Nat
      /\ current_block_number \in Nat /\ chain_at \in DOMAIN ChainsInOrder
      /\ chain \in ChainIds /\ height[chain] \in Nat
  BY <1>1, BoundsAssumption, ChainFacts DEF BlockNumbers, TypeOK
<1>3. ASSUME UNCHANGED <<provider, next_block_number_to_ingest_from>>,
             current_block_number' <= height[chain']
      PROVE  WithinHeight'
  BY <1>1, <1>3 DEF WithinHeight, provider
<1>4. ASSUME UNCHANGED <<provider, next_block_number_to_ingest_from, chain_at,
                         current_block_number>>
      PROVE  WithinHeight'
  BY <1>1, <1>3, <1>4 DEF WithinHeight, chain
<1>5. ASSUME UNCHANGED <<provider, next_block_number_to_ingest_from>>,
             chain_at' \in DOMAIN ChainsInOrder, current_block_number' = 0
      PROVE  WithinHeight'
  <2>1. chain' \in ChainIds
    BY <1>5, ChainsAssumption DEF chain
  <2>2. height' = height
    BY <1>5 DEF provider
  <2> QED BY <1>2, <1>3, <1>5, <2>1, <2>2
<1>6. ASSUME NEW c \in ChainIds, MineBlock(c) \/ Reorg(c)
      PROVE  WithinHeight'
  <2>1. /\ served \subseteq served' /\ \A d \in ChainIds : height[d] <= height'[d]
        /\ UNCHANGED <<database, pc, locals>>
    BY <1>1, <1>6, EnvironmentSteps
  <2>2. ASSUME NEW d \in ChainIds, NEW b \in BlockNumbers, b <= height'[d]
        PROVE  canonical'[d][b] \in served'
    <3>1. /\ b \in Nat /\ (b <= height[d] => canonical[d][b] \in served)
          /\ height \in [ChainIds -> BlockNumbers] /\ DOMAIN canonical = ChainIds
      <4>1. b \in Nat
        BY BoundsAssumption DEF BlockNumbers
      <4>2. b <= height[d] => canonical[d][b] \in served
        BY <1>1 DEF WithinHeight
      <4>3. height \in [ChainIds -> BlockNumbers] /\ canonical \in [ChainIds -> Branches]
        BY <1>1 DEF TypeOK
      <4> QED BY <4>1, <4>2, <4>3
    <3>2. CASE MineBlock(c)
      <4>1. /\ canonical' = canonical /\ height' = [height EXCEPT ![c] = @ + 1]
            /\ served' = served \cup {canonical[c][height[c] + 1]}
        BY <3>2 DEF MineBlock
      <4>2. CASE d = c /\ b = height[c] + 1
        BY <4>1, <4>2
      <4>3. CASE b <= height[d]
        BY <3>1, <4>1, <4>3
      <4> QED BY <1>2, <2>2, <3>1, <4>1, <4>2, <4>3
    <3>3. CASE Reorg(c)
      <4>1. PICK fork \in Forks[c] :
              /\ canonical' = [canonical EXCEPT ![c] = fork]
              /\ served' = served \cup {fork[a] : a \in 0..height[c]}
              /\ height' = height
        BY <3>3 DEF Reorg
      <4>2. CASE d = c
        <5>1. canonical'[d][b] = fork[b] /\ b \in 0..height[c]
          BY <1>2, <2>2, <3>1, <4>1, <4>2
        <5> QED BY <4>1, <5>1
      <4>3. CASE d # c
        BY <2>2, <3>1, <4>1, <4>3
      <4> QED BY <4>2, <4>3
    <3> QED BY <1>6, <3>2, <3>3
  <2>3. ASSUME NEW r \in ContractAddresses
        PROVE  \/ next_block_number_to_ingest_from'[r] = r.start_block_number
               \/ next_block_number_to_ingest_from'[r] <= height'[r.chain_id] + 1
    <3>1. /\ r.chain_id \in ChainIds /\ height[r.chain_id] <= height'[r.chain_id]
          /\ next_block_number_to_ingest_from' = next_block_number_to_ingest_from
          /\ next_block_number_to_ingest_from[r] \in Nat
      BY <1>1, <2>1, RowTypes DEF database
    <3>2. \/ next_block_number_to_ingest_from[r] = r.start_block_number
          \/ next_block_number_to_ingest_from[r] <= height[r.chain_id] + 1
      BY <1>1 DEF WithinHeight
    <3> QED BY <1>2, <3>1, <3>2
  <2>4. current_block_number' <= height'[chain']
    <3>1. current_block_number' = current_block_number /\ chain' = chain
      BY <2>1 DEF locals, chain
    <3>2. current_block_number <= height[chain] /\ height[chain] <= height'[chain]
      BY <1>1, <1>2, <2>1 DEF WithinHeight
    <3> QED BY <1>2, <3>1, <3>2
  <2> QED BY <2>2, <2>3, <2>4 DEF WithinHeight
<1>7. CASE Crash
  <2>1. /\ chain_at' = 1 /\ current_block_number' = 0
        /\ UNCHANGED <<provider, next_block_number_to_ingest_from>>
    BY <1>7 DEF Crash, database
  <2>2. 1 \in DOMAIN ChainsInOrder
    BY ChainsAssumption
  <2> QED BY <1>5, <2>1, <2>2
<1>8. ASSUME NEW r \in ContractAddresses, IncludeContract(r)  PROVE WithinHeight'
  BY <1>1, <1>4, <1>8, EnvironmentSteps DEF locals
<1>9. CASE FetchCurrentBlockNumber
  <2>1. /\ UNCHANGED <<canonical, height, served, next_block_number_to_ingest_from, chain_at>>
        /\ current_block_number' = height[chain] /\ chain' = chain
    BY <1>9 DEF FetchCurrentBlockNumber, database, chain
  <2> QED BY <1>1, <1>2, <2>1 DEF WithinHeight
<1>10. CASE OpenStream \/ StreamChunk \/ HandleChainReorg \/ \E f \in pending : FetchLogs(f)
  BY <1>4, <1>10 DEF OpenStream, StreamChunk, HandleChainReorg, FetchLogs, database
<1>11. CASE FinishPass
  <2>1. chain_at' \in DOMAIN ChainsInOrder
    BY <1>2, <1>11, ChainsAssumption DEF FinishPass
  <2> QED BY <1>5, <1>11, <2>1 DEF FinishPass
<1>12. CASE IngestEvents
  <2>1. /\ UNCHANGED <<provider, chain_at, current_block_number>>
        /\ \A f \in filters : f.to \in Nat /\ f.to <= current_block_number
                              /\ f.row.chain_id = chain
    BY <1>1, <1>12 DEF IngestEvents, FeedInv, AtomicityInv, FilterRanges, TypeOK, Filters,
                       FiltersOfChain
  <2>2. ASSUME NEW r \in ContractAddresses
        PROVE  \/ next_block_number_to_ingest_from'[r] = r.start_block_number
               \/ next_block_number_to_ingest_from'[r] <= height[r.chain_id] + 1
    <3>1. CASE \A f \in filters : f.row # r
      BY <1>1, <1>12, <3>1, CursorsPassFilters DEF WithinHeight
    <3>2. ASSUME NEW f \in filters, f.row = r
          PROVE  next_block_number_to_ingest_from'[r] <= height[r.chain_id] + 1
      <4>1. next_block_number_to_ingest_from'[r] = f.to + 1
        BY <1>1, <1>12, <3>2, CursorsPassFilters
      <4>2. f.to <= height[r.chain_id]
        <5>1. f.to \in Nat /\ f.to <= current_block_number /\ r.chain_id = chain
          BY <2>1, <3>2
        <5>2. current_block_number <= height[chain]
          BY <1>1 DEF WithinHeight
        <5> QED BY <1>2, <5>1, <5>2
      <4>3. r.chain_id = chain /\ f.to \in Nat
        BY <2>1, <3>2
      <4> QED BY <1>2, <4>1, <4>2, <4>3
    <3> QED BY <3>1, <3>2
  <2>3. chain' = chain
    BY <2>1 DEF chain
  <2> QED BY <1>1, <2>1, <2>2, <2>3 DEF WithinHeight, provider
<1>13. CASE UNCHANGED vars
  BY <1>4, <1>13 DEF vars, database, locals
<1> QED BY <1>6, <1>7, <1>8, <1>9, <1>10, <1>11, <1>12, <1>13 DEF Next, Ingest

-----------------------------------------------------------------------------
(* Rows, filters and answers *)

\* Of a filter's answer, what falls on one block, provided the chain has it: the
\* events of the canonical version of the block.
LEMMA AnswerIsVersion ==
    ASSUME TypeOK, WithinHeight, NEW f \in Filters, f.row.contract_name \in ContractNames,
           NEW b \in BlockNumbers, f.from <= b, b <= f.to
    PROVE  LET answer == {l \in GetLogs(f) : l.block_number = b}
           IN  /\ b <= height[f.row.chain_id] =>
                     \E h \in ServedAt(f.row.chain_id, b) : answer = SubscribedLogs(f.row, h)
               /\ b > height[f.row.chain_id] => answer = {}
<1> DEFINE c == f.row.chain_id
           answer == {l \in GetLogs(f) : l.block_number = b}
<1>1. f.row \in ContractAddresses
  BY DEF Filters
<1>2. c \in ChainIds /\ height[c] \in Nat /\ b \in Nat
  BY <1>1, RowTypes, BoundsAssumption DEF BlockNumbers
<1>3. ASSUME b <= height[c]
      PROVE  \E h \in ServedAt(c, b) : answer = SubscribedLogs(f.row, h)
  <2> DEFINE h == canonical[c][b]
  <2>1. canonical[c] \in Forks[c]
    BY <1>2 DEF TypeOK
  <2>2. h \in ServedAt(c, b)
    BY <1>2, <1>3, <2>1 DEF ServedAt, WithinHeight
  <2>3. ASSUME NEW l \in Logs
        PROVE  l \in answer <=> l \in SubscribedLogs(f.row, h)
    <3>1. l \in SubscribedLogs(f.row, h) => l.block_number = b
      BY <1>2, <2>1, LogsAssumption DEF SubscribedLogs, BelongsTo
    <3> QED BY <1>2, <1>3, <3>1
            DEF GetLogs, FilterMatches, IsInRange, IsCanonical, SubscribedLogs, BelongsTo
  <2> QED BY <2>2, <2>3 DEF GetLogs, SubscribedLogs
<1>4. ASSUME b > height[c]
      PROVE  answer = {}
  BY <1>2, <1>4 DEF GetLogs, FilterMatches, IsCanonical
<1> QED BY <1>3, <1>4

LEMMA OnePerRowStep ==
    ASSUME TypeOK, OnePerRow, [Next]_vars
    PROVE  OnePerRow'
<1>1. ASSUME UNCHANGED <<contract_addresses, addresses, filters>>  PROVE OnePerRow'
  BY <1>1 DEF OnePerRow
<1>2. ASSUME NEW c \in ChainIds, MineBlock(c) \/ Reorg(c)  PROVE OnePerRow'
  BY <1>1, <1>2, EnvironmentSteps DEF database, locals
<1>3. ASSUME NEW r \in ContractAddresses, IncludeContract(r)  PROVE OnePerRow'
  BY <1>3 DEF IncludeContract, OnePerRow, locals
<1>4. CASE addresses' = {} /\ filters' = {}
  BY <1>4 DEF OnePerRow
<1>5. CASE StreamChunk
  <2> DEFINE found == RowsBetween(chain, from, from + ChunkSize)
  <2>1. /\ addresses' = FilterUningested(found, current_block_number)
        /\ filters' = RemoveAlreadyIngested(MainFilters(addresses', current_block_number))
        /\ contract_addresses' = contract_addresses
    BY <1>5 DEF StreamChunk, database
  <2>2. found \subseteq contract_addresses
    BY DEF RowsBetween, RowsOf
  <2> HIDE DEF found
  <2>3. /\ \A a \in addresses' : a.row \in contract_addresses
        /\ \A a, b \in addresses' : a.row = b.row => a = b
    BY <2>1, <2>2 DEF FilterUningested
  <2>4. \A f \in filters' : \E a \in addresses' :
            f = [row |-> a.row, from |-> a.next, to |-> MainToBlock(a.next, current_block_number)]
    BY <2>1 DEF RemoveAlreadyIngested, MainFilters, Configured
  <2>5. \A f, g \in filters' : f.row = g.row => f = g
    BY <2>3, <2>4
  <2>6. \A f \in filters' : f.row \in contract_addresses
    BY <2>3, <2>4
  <2> QED BY <2>1, <2>3, <2>5, <2>6 DEF OnePerRow
<1>6. CASE IngestEvents
  <2>1. /\ addresses' = addresses /\ contract_addresses' = contract_addresses
        /\ filters' = ConfirmationFilters(addresses, current_block_number)
    BY <1>6 DEF IngestEvents
  <2>2. \A f \in filters' : \E a \in addresses :
            f = [row  |-> a.row,
                 from |-> ConfirmationFromBlock(a.next, a.row.start_block_number),
                 to   |-> ConfirmationToBlock(a.next)]
    BY <2>1 DEF ConfirmationFilters, Configured
  <2>3. \A f, g \in filters' : f.row = g.row => f = g
    BY <2>2 DEF OnePerRow
  <2>4. \A f \in filters' : f.row \in contract_addresses
    BY <2>2 DEF OnePerRow
  <2> QED BY <2>1, <2>3, <2>4 DEF OnePerRow
<1>7. CASE Crash \/ HandleChainReorg
  BY <1>4, <1>7 DEF Crash, HandleChainReorg
<1>8. CASE FetchCurrentBlockNumber \/ OpenStream \/ FinishPass \/ \E f \in pending : FetchLogs(f)
  BY <1>1, <1>8 DEF FetchCurrentBlockNumber, OpenStream, FinishPass, FetchLogs, database
<1>9. CASE UNCHANGED vars
  BY <1>1, <1>9 DEF vars, database, locals
<1> QED BY <1>2, <1>3, <1>5, <1>6, <1>7, <1>8, <1>9 DEF Next, Ingest

LEMMA FilterRangesStep ==
    ASSUME FeedInv, [Next]_vars
    PROVE  FilterRanges'
<1>1. TypeOK /\ FiltersOfChain /\ FilterRanges /\ OnePerRow
  BY DEF FeedInv, AtomicityInv
<1>2. ASSUME UNCHANGED <<next_block_number_to_ingest_from, pc, current_block_number,
                         addresses, filters>>
      PROVE  FilterRanges'
  BY <1>1, <1>2 DEF FilterRanges
<1>3. CASE addresses' = {} /\ filters' = {}
  BY <1>3 DEF FilterRanges
<1>4. ASSUME NEW c \in ChainIds, MineBlock(c) \/ Reorg(c)  PROVE FilterRanges'
  BY <1>1, <1>2, <1>4, EnvironmentSteps DEF database, locals
<1>5. ASSUME NEW r \in ContractAddresses, IncludeContract(r)  PROVE FilterRanges'
  BY <1>2, <1>5 DEF IncludeContract, locals
<1>6. CASE Crash \/ HandleChainReorg
  BY <1>3, <1>6 DEF Crash, HandleChainReorg
<1>7. CASE FetchCurrentBlockNumber \/ OpenStream \/ FinishPass
  <2>1. addresses = {} /\ filters = {}
    BY <1>1, <1>7 DEF FetchCurrentBlockNumber, OpenStream, FinishPass, FiltersOfChain
  <2> QED BY <1>3, <1>7, <2>1 DEF FetchCurrentBlockNumber, OpenStream, FinishPass
<1>8. ASSUME NEW f \in pending, FetchLogs(f)  PROVE FilterRanges'
  BY <1>2, <1>8 DEF FetchLogs, database
<1>9. CASE StreamChunk
  <2> DEFINE found == RowsBetween(chain, from, from + ChunkSize)
  <2>1. /\ addresses' = FilterUningested(found, current_block_number)
        /\ filters' = RemoveAlreadyIngested(MainFilters(addresses', current_block_number))
        /\ pc' = "ingest"
        /\ UNCHANGED <<next_block_number_to_ingest_from, current_block_number>>
    BY <1>9 DEF StreamChunk, database
  <2>2. found \subseteq ContractAddresses
    BY <1>1 DEF RowsBetween, RowsOf, TypeOK
  <2> HIDE DEF found
  <2>3. \A a \in addresses' : /\ a.row \in ContractAddresses
                              /\ a.next = next_block_number_to_ingest_from[a.row]
                              /\ a.next <= current_block_number
    BY <2>1, <2>2 DEF FilterUningested
  <2>4. \A a \in addresses' :
          /\ a.next \in Nat
          /\ a.next <= MainToBlock(a.next, current_block_number)
          /\ MainToBlock(a.next, current_block_number) <= current_block_number
    <3>1. current_block_number \in Nat /\ \A a \in addresses' : a.next \in Nat
      BY <1>1, <2>3, RowTypes DEF TypeOK
    <3> QED BY <2>3, <3>1, BlocksPerBatchAssumption DEF MainToBlock, Smaller
  <2>5. \A f \in filters' : \E a \in addresses' :
            f = [row |-> a.row, from |-> a.next, to |-> MainToBlock(a.next, current_block_number)]
    BY <2>1 DEF RemoveAlreadyIngested, MainFilters, Configured
  <2>6. \A f \in filters' :
          /\ f.from = next_block_number_to_ingest_from[f.row]
          /\ f.from <= f.to /\ f.to <= current_block_number
    BY <2>3, <2>4, <2>5
  <2> QED BY <2>1, <2>3, <2>6 DEF FilterRanges
<1>10. CASE IngestEvents
  <2>1. /\ addresses' = addresses /\ pc' = "confirm"
        /\ current_block_number' = current_block_number
        /\ filters' = ConfirmationFilters(addresses, current_block_number)
    BY <1>10 DEF IngestEvents
  <2>2. \A f \in filters' : \E a \in addresses :
            f = [row  |-> a.row,
                 from |-> ConfirmationFromBlock(a.next, a.row.start_block_number),
                 to   |-> ConfirmationToBlock(a.next)]
    BY <2>1 DEF ConfirmationFilters, Configured
  <2>3. \A a \in addresses :
          a.row.start_block_number <= ConfirmationFromBlock(a.next, a.row.start_block_number)
    <3>1. ASSUME NEW a \in addresses
          PROVE  a.next \in Nat /\ a.row.start_block_number \in Nat
      BY <1>1, RowTypes DEF TypeOK, Addresses
    <3> QED BY <3>1, MinConfirmationCountAssumption
            DEF ConfirmationFromBlock, DeductFrom, Larger
  <2>4. \A f \in filters' : f.row.start_block_number <= f.from
    BY <2>2, <2>3
  <2> QED BY <1>1, <2>1, <2>4 DEF FilterRanges
<1>11. CASE UNCHANGED vars
  BY <1>2, <1>11 DEF vars, database, locals
<1> QED BY <1>4, <1>5, <1>6, <1>7, <1>8, <1>9, <1>10, <1>11 DEF Next, Ingest

LEMMA StoredBelongStep ==
    ASSUME FeedInv, [Next]_vars
    PROVE  StoredBelong'
<1>1. TypeOK /\ StoredBelong
  BY DEF FeedInv, AtomicityInv
<1> SUFFICES ASSUME NEW l \in Logs, events'[l] > 0
             PROVE  \E r \in ContractAddresses : BelongsTo(l, r)
  BY DEF StoredBelong
<1>2. CASE events[l] > 0
  BY <1>1, <1>2 DEF StoredBelong
<1>3. CASE l \in logs
  <2>1. PICK f \in filters : FilterMatches(l, f)
    BY <1>3 DEF FeedInv, AnswersAreVersions
  <2> QED BY <1>1, <2>1 DEF FilterMatches, BelongsTo, TypeOK, Filters
<1>4. CASE IngestEvents
  BY <1>2, <1>3, <1>4 DEF IngestEvents, WithCreated
<1>5. CASE HandleChainReorg
  <2> DEFINE ingested == AlreadyIngestedEvents(filters)
             added    == AddedEvents(ingested, logs)
             removed  == RemovedEvents(ingested, logs)
  <2>1. added \subseteq logs
    BY DEF AddedEvents
  <2>2. events' = events \/ events' = WithCreated(WithDeleted(events, removed), added)
    BY <1>5 DEF HandleChainReorg
  <2> HIDE DEF added, removed
  <2> QED BY <1>2, <1>3, <2>1, <2>2 DEF WithCreated, WithDeleted
<1>6. CASE FinishPass
  <2>1. events' = events \/ events' = WithPruned(events, GetMinBlockNumber(current_block_number), chain)
    BY <1>6 DEF FinishPass
  <2> QED BY <1>2, <2>1 DEF WithPruned
<1>7. CASE events' = events
  BY <1>2, <1>7
<1>8. ASSUME NEW c \in ChainIds, MineBlock(c) \/ Reorg(c)  PROVE events' = events
  BY <1>1, <1>8, EnvironmentSteps DEF database
<1>9. ASSUME NEW r \in ContractAddresses, IncludeContract(r)  PROVE events' = events
  BY <1>9 DEF IncludeContract
<1>10. ASSUME NEW f \in pending, FetchLogs(f)  PROVE events' = events
  BY <1>10 DEF FetchLogs, database
<1>11. Crash \/ FetchCurrentBlockNumber \/ OpenStream \/ StreamChunk \/ UNCHANGED vars
       => events' = events
  BY DEF Crash, FetchCurrentBlockNumber, OpenStream, StreamChunk, vars, database
<1> QED BY <1>4, <1>5, <1>6, <1>7, <1>8, <1>9, <1>10, <1>11 DEF Next, Ingest

LEMMA AnswersStep ==
    ASSUME FeedInv, [Next]_vars
    PROVE  AnswersAreVersions'
<1>1. TypeOK /\ FiltersOfChain /\ WithinHeight /\ OnePerRow /\ FilterRanges /\ AnswersAreVersions
  BY DEF FeedInv, AtomicityInv
<1>2. CASE logs' = {} /\ filters' \ pending' = {}
  BY <1>2 DEF AnswersAreVersions
<1>3. ASSUME served \subseteq served',
             UNCHANGED <<next_block_number_to_ingest_from, pc, filters, pending, logs,
                         current_block_number>>
      PROVE  AnswersAreVersions'
  <2>1. \A c, b : ServedAt(c, b) \subseteq ServedAt(c, b)'
    BY <1>3 DEF ServedAt
  <2>2. \A r, b : LogsAt(r, b)' = LogsAt(r, b)
    BY <1>3 DEF LogsAt
  <2>3. \A l \in logs : \E f \in filters \ pending : FilterMatches(l, f)
    BY <1>1 DEF AnswersAreVersions
  <2>4. ASSUME NEW f \in filters \ pending, NEW b \in BlockNumbers, f.from <= b, b <= f.to
        PROVE  \/ \E h \in ServedAt(f.row.chain_id, b)' :
                     LogsAt(f.row, b)' = SubscribedLogs(f.row, h)
               \/ /\ pc' = "confirm" /\ LogsAt(f.row, b)' = {}
                  /\ b >= next_block_number_to_ingest_from'[f.row] /\ b > current_block_number'
    BY <1>1, <1>3, <2>1, <2>2, <2>4 DEF AnswersAreVersions
  <2> QED BY <1>3, <2>3, <2>4 DEF AnswersAreVersions
<1>4. ASSUME NEW c \in ChainIds, MineBlock(c) \/ Reorg(c)  PROVE AnswersAreVersions'
  BY <1>1, <1>3, <1>4, EnvironmentSteps DEF database, locals
<1>5. ASSUME NEW r \in ContractAddresses, IncludeContract(r)  PROVE AnswersAreVersions'
  BY <1>3, <1>5 DEF IncludeContract, locals, provider
<1>6. CASE Crash \/ StreamChunk \/ IngestEvents
  BY <1>2, <1>6 DEF Crash, StreamChunk, IngestEvents
<1>7. CASE HandleChainReorg
  BY <1>2, <1>7 DEF HandleChainReorg
<1>8. CASE FetchCurrentBlockNumber \/ OpenStream \/ FinishPass
  <2>1. logs = {} /\ filters = {}
    BY <1>1, <1>8 DEF FetchCurrentBlockNumber, OpenStream, FinishPass, FiltersOfChain
  <2> QED BY <1>2, <1>8, <2>1 DEF FetchCurrentBlockNumber, OpenStream, FinishPass
<1>9. ASSUME NEW f \in pending, FetchLogs(f)  PROVE AnswersAreVersions'
  <2>1. /\ f \in filters /\ f \in Filters /\ f.row \in ContractAddresses
        /\ f.row.contract_name \in ContractNames
        /\ f.from \in Nat /\ f.to \in Nat /\ f.row.chain_id = chain
    BY <1>1, <1>9 DEF TypeOK, Filters, FiltersOfChain
  <2>2. /\ logs' = logs \cup GetLogs(f) /\ pending' = pending \ {f}
        /\ pc \in {"ingest", "confirm"}
        /\ UNCHANGED <<served, next_block_number_to_ingest_from, pc, filters, current_block_number>>
    BY <1>9 DEF FetchLogs, provider, database
  <2>3. ASSUME NEW l \in logs'  PROVE \E g \in filters' \ pending' : FilterMatches(l, g)
    BY <1>1, <2>1, <2>2 DEF AnswersAreVersions, GetLogs
  <2>4. \A r, b : LogsAt(r, b)' = LogsAt(r, b) \cup {l \in GetLogs(f) : BelongsTo(l, r) /\ l.block_number = b}
    BY <2>2 DEF LogsAt
  <2>5. ASSUME NEW g \in filters \ pending, NEW b  PROVE LogsAt(g.row, b)' = LogsAt(g.row, b)
    <3>1. g.row # f.row /\ g.row \in ContractAddresses
      BY <1>1, <1>9, <2>1 DEF OnePerRow, TypeOK, Filters
    <3>2. \A l \in GetLogs(f) : ~ BelongsTo(l, g.row)
      BY <2>1, <3>1, ContractAddressesAssumption DEF GetLogs, FilterMatches, BelongsTo
    <3> QED BY <2>4, <3>2
  <2>6. ASSUME NEW b
        PROVE  LogsAt(f.row, b)' = {l \in GetLogs(f) : l.block_number = b}
    <3>1. ASSUME NEW l \in logs, BelongsTo(l, f.row)  PROVE FALSE
      <4>1. PICK g \in filters \ pending : FilterMatches(l, g)
        BY <1>1 DEF AnswersAreVersions
      <4>2. g.row \in ContractAddresses
        BY <1>1 DEF TypeOK, Filters
      <4>3. g.row = f.row
        BY <2>1, <3>1, <4>1, <4>2, ContractAddressesAssumption DEF FilterMatches, BelongsTo
      <4> QED BY <1>1, <1>9, <2>1, <4>3 DEF OnePerRow
    <3>2. \A l \in GetLogs(f) : BelongsTo(l, f.row)
      BY DEF GetLogs, FilterMatches, BelongsTo
    <3> QED BY <2>4, <3>1, <3>2 DEF LogsAt
  <2>7. ASSUME NEW b \in BlockNumbers, f.from <= b, b <= f.to
        PROVE  \/ \E h \in ServedAt(chain, b) : LogsAt(f.row, b)' = SubscribedLogs(f.row, h)
               \/ /\ pc = "confirm" /\ LogsAt(f.row, b)' = {}
                  /\ b >= next_block_number_to_ingest_from[f.row] /\ b > current_block_number
    <3>1. b \in Nat /\ height[chain] \in Nat /\ current_block_number \in Nat
          /\ next_block_number_to_ingest_from[f.row] \in Nat
          /\ f.row.start_block_number \in Nat
      <4>1. b \in Nat /\ height[chain] \in Nat
        BY <1>1, <2>1, RowTypes, BoundsAssumption DEF BlockNumbers
      <4> QED BY <1>1, <2>1, <4>1, RowTypes DEF TypeOK
    <3>2. CASE b <= height[chain]
      <4>1. \E h \in ServedAt(chain, b) :
              {l \in GetLogs(f) : l.block_number = b} = SubscribedLogs(f.row, h)
        BY <1>1, <2>1, <2>7, <3>2, AnswerIsVersion
      <4> QED BY <2>6, <4>1
    <3>3. CASE b > height[chain]
      <4>1. LogsAt(f.row, b)' = {}
        BY <1>1, <2>1, <2>6, <2>7, <3>3, AnswerIsVersion
      <4>2. pc # "ingest"
        <5>1. pc = "ingest" => f.to <= current_block_number
          BY <1>1, <2>1 DEF FilterRanges
        <5>2. current_block_number <= height[chain]
          BY <1>1 DEF WithinHeight
        <5> QED BY <2>1, <2>7, <3>1, <3>3, <5>1, <5>2
      <4>3. b >= next_block_number_to_ingest_from[f.row]
        <5>1. f.row.start_block_number <= f.from
          BY <1>1, <2>1, <2>2, <4>2 DEF FilterRanges
        <5>2. \/ next_block_number_to_ingest_from[f.row] = f.row.start_block_number
              \/ next_block_number_to_ingest_from[f.row] <= height[chain] + 1
          BY <1>1, <2>1 DEF WithinHeight
        <5> QED BY <2>1, <2>7, <3>1, <3>3, <5>1, <5>2
      <4>4. b > current_block_number
        <5>1. current_block_number <= height[chain]
          BY <1>1 DEF WithinHeight
        <5> QED BY <3>1, <3>3, <5>1
      <4> QED BY <2>2, <4>1, <4>2, <4>3, <4>4
    <3> QED BY <3>1, <3>2, <3>3
  <2>8. \A c, b : ServedAt(c, b)' = ServedAt(c, b)
    BY <2>2 DEF ServedAt
  <2>9. ASSUME NEW g \in filters' \ pending', NEW b \in BlockNumbers, g.from <= b, b <= g.to
        PROVE  \/ \E h \in ServedAt(g.row.chain_id, b)' :
                     LogsAt(g.row, b)' = SubscribedLogs(g.row, h)
               \/ /\ pc' = "confirm" /\ LogsAt(g.row, b)' = {}
                  /\ b >= next_block_number_to_ingest_from'[g.row] /\ b > current_block_number'
    <3>1. CASE g = f
      BY <2>1, <2>2, <2>7, <2>8, <2>9, <3>1
    <3>2. CASE g # f
      <4>1. g \in filters \ pending
        BY <2>2, <2>9, <3>2
      <4> QED BY <1>1, <2>2, <2>5, <2>8, <2>9, <4>1 DEF AnswersAreVersions
    <3> QED BY <3>1, <3>2
  <2> QED BY <2>3, <2>9 DEF AnswersAreVersions
<1>10. CASE UNCHANGED vars
  BY <1>3, <1>10 DEF vars, database, locals, provider
<1> QED BY <1>4, <1>5, <1>6, <1>7, <1>8, <1>9, <1>10 DEF Next, Ingest

LEMMA InitFeedInv == Init => FeedInv
<1> SUFFICES ASSUME Init PROVE FeedInv
  OBVIOUS
<1>1. AtomicityInv
  BY InitTypeOK DEF Init, AtomicityInv, FiltersOfChain, LogsMatchFilters, LogsAtomic, BlockAtomic
<1>2. StoredBelong /\ OnePerRow /\ FilterRanges /\ AnswersAreVersions
  BY DEF Init, StoredBelong, OnePerRow, FilterRanges, AnswersAreVersions
<1> QED BY <1>1, <1>2, WithinHeightInit DEF FeedInv

LEMMA FeedInvariant == Spec => []FeedInv
<1>1. Init => FeedInv
  BY InitFeedInv
<1>2. FeedInv /\ [Next]_vars => FeedInv'
  <2> SUFFICES ASSUME FeedInv, [Next]_vars PROVE FeedInv'
    OBVIOUS
  <2>1. AtomicityInv'
    BY NextTypeOK, FiltersOfChainStep, GatheredLogsStep, BlockAtomicStep DEF AtomicityInv, FeedInv
  <2>2. OnePerRow'
    BY OnePerRowStep DEF FeedInv, AtomicityInv
  <2> QED BY <2>1, <2>2, WithinHeightStep, StoredBelongStep, FilterRangesStep, AnswersStep
          DEF FeedInv
<1> QED BY <1>1, <1>2, PTL DEF Spec

-----------------------------------------------------------------------------
(* Every step of Ingester is one of EventFeed *)

\* The feed's state, as Ingester!Feed maps it.
FeedMirror == [r \in ConfiguredRows |-> [b \in BlockNumbers |-> StoredAt(r, b)]]
FeedCursor == [r \in ConfiguredRows |-> next_block_number_to_ingest_from[r]]

\* A version of the feed is what a block the chain has had holds for a row.
LEMMA FeedVersions ==
    ASSUME TypeOK, NEW r \in ConfiguredRows, NEW b \in BlockNumbers
    PROVE  Feed!Versions(r, b) = {SubscribedLogs(r, h) : h \in ServedAt(r.chain_id, b)}
<1>1. r \in ContractAddresses /\ r.chain_id \in ChainIds
  BY RowTypes DEF ConfiguredRows
<1>2. \A h \in served : h \in BlockHashes
  BY DEF TypeOK
<1> QED BY <1>1, <1>2 DEF Feed!Versions, ServedAt

LEMMA FeedStutters ==
    ASSUME UNCHANGED <<contract_addresses, next_block_number_to_ingest_from, events,
                       reorged_blocks, pruned_below>>
    PROVE  UNCHANGED <<IngestedRows, FeedMirror, FeedCursor, reorged_blocks, pruned_below>>
  BY DEF IngestedRows, FeedMirror, FeedCursor, StoredAt

LEMMA IngestAdvancesFeed ==
    ASSUME FeedInv, IngestEvents
    PROVE  Feed!Advance
<1>1. TypeOK /\ FiltersOfChain /\ OnePerRow /\ FilterRanges /\ AnswersAreVersions
  BY DEF FeedInv, AtomicityInv
<1>2. /\ UNCHANGED <<contract_addresses, served, reorged_blocks, pruned_below>>
      /\ events' = WithCreated(events, logs)
      /\ pending = {} /\ pc = "ingest"
  BY DEF IngestEvents, provider
<1>3. ASSUME NEW r \in ConfiguredRows, NEW b \in BlockNumbers
      PROVE  StoredAt(r, b)' = StoredAt(r, b) \cup LogsAt(r, b)
  <2>1. \A l \in Logs : events'[l] > 0 <=> events[l] > 0 \/ l \in logs
    BY <1>1, <1>2 DEF WithCreated, TypeOK
  <2>2. logs \subseteq Logs
    BY <1>1 DEF TypeOK
  <2> QED BY <2>1, <2>2 DEF StoredAt, LogsAt
<1>4. ASSUME NEW r \in ConfiguredRows
      PROVE  /\ FeedCursor[r] <= FeedCursor'[r]
             /\ FeedCursor'[r] # FeedCursor[r] => r \in IngestedRows
             /\ \A b \in BlockNumbers :
                  IF FeedCursor[r] <= b /\ b < FeedCursor'[r]
                  THEN \E v \in Feed!Versions(r, b) : FeedMirror'[r][b] = FeedMirror[r][b] \cup v
                  ELSE FeedMirror'[r][b] = FeedMirror[r][b]
  <2>1. /\ r \in ContractAddresses /\ r.contract_name \in ContractNames
        /\ FeedCursor[r] = next_block_number_to_ingest_from[r]
        /\ FeedCursor'[r] = next_block_number_to_ingest_from'[r]
        /\ next_block_number_to_ingest_from[r] \in Nat
    BY <1>1, RowTypes DEF ConfiguredRows, FeedCursor
  <2>2. \A b \in BlockNumbers :
          FeedMirror[r][b] = StoredAt(r, b) /\ FeedMirror'[r][b] = StoredAt(r, b)'
    BY DEF FeedMirror
  <2>3. ASSUME NEW l \in logs, BelongsTo(l, r)
        PROVE  \E f \in filters : f.row = r /\ FilterMatches(l, f)
    <3>1. PICK f \in filters : FilterMatches(l, f)
      BY <1>1 DEF AnswersAreVersions
    <3>2. f.row \in ContractAddresses
      BY <1>1 DEF TypeOK, Filters
    <3> QED BY <2>1, <2>3, <3>1, <3>2, ContractAddressesAssumption DEF FilterMatches, BelongsTo
  <2>4. CASE \A f \in filters : f.row # r
    <3>1. next_block_number_to_ingest_from'[r] = next_block_number_to_ingest_from[r]
      BY <1>1, <2>1, <2>4, CursorsPassFilters
    <3>2. \A b : LogsAt(r, b) = {}
      BY <2>3, <2>4 DEF LogsAt
    <3>3. \A b \in BlockNumbers : FeedMirror'[r][b] = FeedMirror[r][b]
      BY <1>3, <2>2, <3>2
    <3>4. ASSUME NEW b \in BlockNumbers
          PROVE  ~ (FeedCursor[r] <= b /\ b < FeedCursor'[r])
      <4>1. b \in Nat
        BY BoundsAssumption DEF BlockNumbers
      <4> QED BY <2>1, <3>1, <4>1
    <3>5. FeedCursor[r] <= FeedCursor'[r] /\ FeedCursor'[r] = FeedCursor[r]
      BY <2>1, <3>1
    <3> QED BY <3>3, <3>4, <3>5
  <2>5. ASSUME NEW f \in filters, f.row = r
        PROVE  /\ FeedCursor[r] <= FeedCursor'[r]
               /\ FeedCursor'[r] # FeedCursor[r] => r \in IngestedRows
               /\ \A b \in BlockNumbers :
                    IF FeedCursor[r] <= b /\ b < FeedCursor'[r]
                    THEN \E v \in Feed!Versions(r, b) : FeedMirror'[r][b] = FeedMirror[r][b] \cup v
                    ELSE FeedMirror'[r][b] = FeedMirror[r][b]
    <3>1. /\ f.from \in Nat /\ f.to \in Nat /\ f.from <= f.to
          /\ FeedCursor[r] = f.from /\ FeedCursor'[r] = f.to + 1
      <4>1. f.from \in Nat /\ f.to \in Nat
        BY <1>1 DEF TypeOK, Filters
      <4>2. f.from = next_block_number_to_ingest_from[r] /\ f.from <= f.to
        BY <1>1, <1>2, <2>5 DEF FilterRanges
      <4>3. next_block_number_to_ingest_from'[r] = f.to + 1
        BY <1>1, <2>1, <2>5, CursorsPassFilters
      <4> QED BY <2>1, <4>1, <4>2, <4>3
    <3>2. r \in IngestedRows
      BY <1>1, <2>1, <2>5 DEF OnePerRow, IngestedRows
    <3>3. ASSUME NEW b \in BlockNumbers
          PROVE  IF FeedCursor[r] <= b /\ b < FeedCursor'[r]
                 THEN \E v \in Feed!Versions(r, b) : FeedMirror'[r][b] = FeedMirror[r][b] \cup v
                 ELSE FeedMirror'[r][b] = FeedMirror[r][b]
      <4>1. b \in Nat /\ FeedMirror'[r][b] = FeedMirror[r][b] \cup LogsAt(r, b)
        BY <1>3, <2>2, BoundsAssumption DEF BlockNumbers
      <4>2. CASE f.from <= b /\ b <= f.to
        <5>1. \E h \in ServedAt(r.chain_id, b) : LogsAt(r, b) = SubscribedLogs(r, h)
          BY <1>1, <1>2, <2>5, <4>2 DEF AnswersAreVersions
        <5>2. LogsAt(r, b) \in Feed!Versions(r, b)
          BY <1>1, <5>1, FeedVersions
        <5> QED BY <3>1, <4>1, <4>2, <5>2
      <4>3. CASE ~ (f.from <= b /\ b <= f.to)
        <5>1. LogsAt(r, b) = {}
          <6>1. ASSUME NEW l \in logs, BelongsTo(l, r), l.block_number = b  PROVE FALSE
            <7>1. PICK g \in filters : g.row = r /\ FilterMatches(l, g)
              BY <2>3, <6>1
            <7>2. g = f
              BY <1>1, <2>5, <7>1 DEF OnePerRow
            <7> QED BY <4>3, <6>1, <7>1, <7>2 DEF FilterMatches, IsInRange
          <6> QED BY <6>1 DEF LogsAt
        <5> QED BY <3>1, <4>1, <4>3, <5>1
      <4> QED BY <4>2, <4>3
    <3> QED BY <3>1, <3>2, <3>3
  <2> QED BY <2>4, <2>5
<1>5. UNCHANGED <<IngestedRows, served, reorged_blocks, pruned_below>>
  BY <1>2 DEF IngestedRows
<1> QED BY <1>4, <1>5 DEF Feed!Advance, Feed!Passed, FeedCursor, FeedMirror

\* What a repair changes lies in the range of a filter, and belongs to its row.
LEMMA ChangesInRange ==
    ASSUME FeedInv, AddressesNotShared, NEW l,
           LET ingested == AlreadyIngestedEvents(filters)
           IN  l \in AddedEvents(ingested, logs) \cup RemovedEvents(ingested, logs)
    PROVE  \E f \in filters : BelongsTo(l, f.row) /\ IsInRange(l, f)
<1>1. TypeOK /\ AnswersAreVersions /\ StoredBelong
  BY DEF FeedInv, AtomicityInv
<1>2. CASE l \in logs
  <2>1. PICK f \in filters : FilterMatches(l, f)
    BY <1>1, <1>2 DEF AnswersAreVersions
  <2> QED BY <2>1 DEF FilterMatches, BelongsTo
<1>3. CASE l \in AlreadyIngestedEvents(filters)
  <2>1. PICK f \in filters :
          l \in Logs /\ events[l] > 0 /\ l.address = f.row.address /\ IsInRange(l, f)
    BY <1>3 DEF AlreadyIngestedEvents, GetEvents
  <2>2. PICK r \in ContractAddresses : BelongsTo(l, r)
    BY <1>1, <2>1 DEF StoredBelong
  <2>3. r = f.row
    BY <1>1, <2>1, <2>2, AddressesNotShared DEF AddressesNotShared, BelongsTo, TypeOK, Filters
  <2> QED BY <2>1, <2>2, <2>3
<1> QED BY <1>2, <1>3 DEF AddedEvents, RemovedEvents

LEMMA RepairOfFeed ==
    ASSUME FeedInv, AddressesNotShared, HandleChainReorg
    PROVE  \/ UNCHANGED <<IngestedRows, served, FeedMirror, FeedCursor, reorged_blocks, pruned_below>>
           \/ Feed!Repair(chain)
<1> DEFINE ingested == AlreadyIngestedEvents(filters)
           added    == AddedEvents(ingested, logs)
           removed  == RemovedEvents(ingested, logs)
           changed  == added \cup removed
<1>1. TypeOK /\ FiltersOfChain /\ OnePerRow /\ AnswersAreVersions /\ StoredBelong
  BY DEF FeedInv, AtomicityInv
<1>2. /\ UNCHANGED <<contract_addresses, next_block_number_to_ingest_from, served, pruned_below>>
      /\ pending = {} /\ pc = "confirm"
      /\ \/ changed = {} /\ UNCHANGED <<events, reorged_blocks>>
         \/ /\ changed # {}
            /\ events' = WithCreated(WithDeleted(events, removed), added)
            /\ reorged_blocks' = Append(reorged_blocks,
                  [chain_id |-> chain, block_number |-> EarliestBlockNumber(changed)])
  BY DEF HandleChainReorg, provider
<1>3. UNCHANGED <<IngestedRows, served, FeedCursor, pruned_below>>
  BY <1>2 DEF IngestedRows, FeedCursor
<1>4. CASE changed = {}
  <2>1. UNCHANGED <<contract_addresses, next_block_number_to_ingest_from, events,
                    reorged_blocks, pruned_below>>
    BY <1>2, <1>4
  <2> QED BY <1>3, <2>1, FeedStutters
<1>5. CASE changed # {}
  <2>1. changed \subseteq Logs
    BY <1>1 DEF AddedEvents, RemovedEvents, AlreadyIngestedEvents, GetEvents, TypeOK
  <2>2. ASSUME NEW l \in changed
        PROVE  \E f \in filters : BelongsTo(l, f.row) /\ IsInRange(l, f)
    BY ChangesInRange
  <2>3. ASSUME NEW l \in Logs
        PROVE  (events'[l] > 0) # (events[l] > 0) <=> l \in changed
    <3>1. ASSUME l \in changed  PROVE (events'[l] > 0) # (events[l] > 0)
      <4>1. PICK f \in filters : BelongsTo(l, f.row) /\ IsInRange(l, f)
        BY <2>2, <3>1
      <4>2. events'[l] > 0 <=> l \in logs
        BY <4>1, RepairMirrorsAnswer DEF FeedInv
      <4>3. l \in ingested <=> events[l] > 0
        BY <4>1 DEF AlreadyIngestedEvents, GetEvents, BelongsTo
      <4>4. l \in added => l \in logs /\ l \notin ingested
        BY DEF AddedEvents, IsSameEvent
      <4>5. l \in removed => l \in ingested /\ l \notin logs
        BY DEF RemovedEvents, IsSameEvent
      <4> HIDE DEF ingested, added, removed
      <4> QED BY <3>1, <4>2, <4>3, <4>4, <4>5
    <3>2. ASSUME l \notin changed  PROVE events'[l] = events[l]
      <4> HIDE DEF ingested, added, removed
      <4> QED BY <1>2, <1>5, <3>2 DEF WithCreated, WithDeleted
    <3> QED BY <3>1, <3>2
  <2>4. ASSUME NEW r \in ConfiguredRows, NEW b \in BlockNumbers
        PROVE  Feed!Changed(r, b) <=> \E l \in changed : BelongsTo(l, r) /\ l.block_number = b
    <3>1. Feed!Changed(r, b) <=> StoredAt(r, b)' # StoredAt(r, b)
      BY DEF Feed!Changed
    <3>2. StoredAt(r, b)' # StoredAt(r, b) <=>
            \E l \in Logs : BelongsTo(l, r) /\ l.block_number = b /\ (events'[l] > 0) # (events[l] > 0)
      BY DEF StoredAt
    <3> HIDE DEF changed
    <3> QED BY <2>1, <2>3, <3>1, <3>2
  <2>5. ASSUME NEW r \in ConfiguredRows, NEW b \in BlockNumbers, Feed!Changed(r, b)
        PROVE  /\ r.chain_id = chain
               /\ r \in IngestedRows
               /\ \/ FeedMirror'[r][b] \in Feed!Versions(r, b)
                  \/ b >= FeedCursor[r] /\ FeedMirror'[r][b] = {}
    <3>1. PICK l \in changed : BelongsTo(l, r) /\ l.block_number = b
      BY <2>4, <2>5
    <3>2. PICK f \in filters : BelongsTo(l, f.row) /\ IsInRange(l, f)
      BY <2>2
    <3>3. f.row \in ContractAddresses /\ r \in ContractAddresses /\ r.contract_name \in ContractNames
      BY <1>1 DEF TypeOK, Filters, ConfiguredRows
    <3>4. r = f.row
      BY <3>1, <3>2, <3>3, ContractAddressesAssumption DEF BelongsTo
    <3>5. r.chain_id = chain /\ r \in IngestedRows
      BY <1>1, <3>3, <3>4 DEF FiltersOfChain, OnePerRow, IngestedRows
    <3>6. FeedMirror'[r][b] = LogsAt(r, b)
      <4>1. FeedMirror'[r][b] = StoredAt(r, b)'
        BY DEF FeedMirror
      <4>2. ASSUME NEW k \in Logs, BelongsTo(k, r), k.block_number = b
            PROVE  events'[k] > 0 <=> k \in logs
        <5>1. IsInRange(k, f)
          BY <3>1, <3>2, <4>2 DEF IsInRange
        <5> QED BY <3>4, <4>2, <5>1, RepairMirrorsAnswer DEF FeedInv
      <4>3. logs \subseteq Logs
        BY <1>1 DEF TypeOK
      <4> QED BY <4>1, <4>2, <4>3 DEF StoredAt, LogsAt
    <3>7. f.from <= b /\ b <= f.to
      BY <3>1, <3>2 DEF IsInRange
    <3>8. \/ \E h \in ServedAt(r.chain_id, b) : LogsAt(r, b) = SubscribedLogs(r, h)
          \/ LogsAt(r, b) = {} /\ b >= next_block_number_to_ingest_from[r]
      BY <1>1, <1>2, <3>4, <3>7 DEF AnswersAreVersions
    <3>9. FeedCursor[r] = next_block_number_to_ingest_from[r]
      BY DEF FeedCursor
    <3> QED BY <1>1, <3>5, <3>6, <3>8, <3>9, FeedVersions
  <2>6. \E r \in ConfiguredRows, b \in BlockNumbers :
          /\ Feed!Changed(r, b)
          /\ \A s \in ConfiguredRows : \A a \in BlockNumbers : Feed!Changed(s, a) => b <= a
          /\ reorged_blocks' = Append(reorged_blocks, [chain_id |-> chain, block_number |-> b])
    <3> DEFINE b == EarliestBlockNumber(changed)
    <3>1. /\ b \in BlockNumbers
          /\ \E l \in changed : l.block_number = b
          /\ \A l \in changed : b <= l.block_number
      <4> HIDE DEF changed
      <4> QED BY <1>5, <2>1, EarliestBlockNumberIsLeast
    <3>2. PICK l \in changed : l.block_number = b
      BY <3>1
    <3>3. PICK f \in filters : BelongsTo(l, f.row)
      BY <2>2
    <3>4. f.row \in ConfiguredRows
      BY <1>1 DEF TypeOK, Filters, FiltersOfChain, ConfiguredRows
    <3>5. Feed!Changed(f.row, b)
      BY <2>4, <3>1, <3>2, <3>3, <3>4
    <3>6. \A s \in ConfiguredRows : \A a \in BlockNumbers : Feed!Changed(s, a) => b <= a
      BY <2>4, <3>1
    <3>7. reorged_blocks' = Append(reorged_blocks, [chain_id |-> chain, block_number |-> b])
      BY <1>2, <1>5
    <3> HIDE DEF b
    <3> QED BY <3>1, <3>4, <3>5, <3>6, <3>7
  <2> QED BY <1>3, <2>5, <2>6 DEF Feed!Repair, FeedMirror, FeedCursor
<1> QED BY <1>4, <1>5

LEMMA PruneOfFeed ==
    ASSUME FeedInv, FinishPass
    PROVE  \/ UNCHANGED <<IngestedRows, served, FeedMirror, FeedCursor, reorged_blocks, pruned_below>>
           \/ Feed!Prune(chain)
<1> DEFINE below == GetMinBlockNumber(current_block_number)
<1>1. TypeOK /\ WithinHeight
  BY DEF FeedInv, AtomicityInv
<1>2. UNCHANGED <<IngestedRows, served, FeedCursor, reorged_blocks>>
  BY DEF FinishPass, IngestedRows, FeedCursor, provider
<1>3. \/ UNCHANGED <<events, pruned_below>>
      \/ /\ events' = WithPruned(events, below, chain)
         /\ pruned_below' = [pruned_below EXCEPT ![chain] = Larger(@, below)]
  BY DEF FinishPass
<1>4. CASE UNCHANGED <<events, pruned_below>>
  BY <1>2, <1>4 DEF FeedMirror, StoredAt
<1>5. CASE /\ events' = WithPruned(events, below, chain)
           /\ pruned_below' = [pruned_below EXCEPT ![chain] = Larger(@, below)]
  <2>1. below \in BlockNumbers
    <3>1. chain \in ChainIds /\ height[chain] \in BlockNumbers /\ current_block_number \in Nat
      BY <1>1, ChainFacts DEF TypeOK
    <3>2. current_block_number <= height[chain]
      BY <1>1 DEF WithinHeight
    <3> QED BY <3>1, <3>2, BoundsAssumption DEF GetMinBlockNumber, BlockNumbers
  <2>2. ASSUME NEW r \in ConfiguredRows, NEW b \in BlockNumbers
        PROVE  StoredAt(r, b)' = IF r.chain_id = chain /\ b < below THEN {} ELSE StoredAt(r, b)
    <3> HIDE DEF below
    <3> QED BY <1>5 DEF StoredAt, WithPruned, BelongsTo
  <2>3. FeedMirror' = [r \in ConfiguredRows |-> [b \in BlockNumbers |->
                          IF r.chain_id = chain /\ b < below THEN {} ELSE FeedMirror[r][b]]]
    <3> HIDE DEF below
    <3> QED BY <2>2 DEF FeedMirror
  <2>4. pruned_below' = [pruned_below EXCEPT ![chain] = IF @ >= below THEN @ ELSE below]
    BY <1>5 DEF Larger
  <2> QED BY <1>2, <2>1, <2>3, <2>4 DEF Feed!Prune, FeedMirror, FeedCursor
<1> QED BY <1>3, <1>4, <1>5

\* Each step maps to a step of the feed or to none.
LEMMA StepImplementsFeed ==
    ASSUME FeedInv, AddressesNotShared, [Next]_vars
    PROVE  [Feed!Next]_Feed!vars
<1>1. TypeOK /\ chain \in DOMAIN pruned_below
  BY ChainFacts DEF FeedInv, AtomicityInv, TypeOK
<1>2. ASSUME UNCHANGED <<IngestedRows, served, FeedMirror, FeedCursor, reorged_blocks, pruned_below>>
      PROVE  UNCHANGED Feed!vars
  BY <1>2 DEF Feed!vars, FeedMirror, FeedCursor
<1>3. ASSUME UNCHANGED <<served, contract_addresses, next_block_number_to_ingest_from, events,
                         reorged_blocks, pruned_below>>
      PROVE  UNCHANGED Feed!vars
  BY <1>2, <1>3, FeedStutters
<1>4. ASSUME NEW c \in ChainIds, MineBlock(c) \/ Reorg(c)  PROVE Feed!Next
  <2>1. served \subseteq served' /\ UNCHANGED database
    BY <1>1, <1>4, EnvironmentSteps
  <2>2. UNCHANGED <<IngestedRows, FeedMirror, FeedCursor, reorged_blocks, pruned_below>>
    BY <2>1, FeedStutters DEF database
  <2> QED BY <2>1, <2>2 DEF Feed!Next, Feed!Serve, FeedMirror, FeedCursor
<1>5. ASSUME NEW r \in ContractAddresses, IncludeContract(r)  PROVE [Feed!Next]_Feed!vars
  <2>1. /\ contract_addresses' = contract_addresses \cup {r}
        /\ UNCHANGED <<served, next_block_number_to_ingest_from, events, reorged_blocks, pruned_below>>
    BY <1>5 DEF IncludeContract, provider
  <2>2. UNCHANGED <<FeedMirror, FeedCursor>>
    BY <2>1 DEF FeedMirror, FeedCursor, StoredAt
  <2>3. CASE r.contract_name \in ContractNames
    <3>1. r \in ConfiguredRows /\ IngestedRows' = IngestedRows \cup {r}
      BY <2>1, <2>3 DEF ConfiguredRows, IngestedRows
    <3> QED BY <2>1, <2>2, <3>1 DEF Feed!Next, Feed!Include, FeedMirror, FeedCursor
  <2>4. CASE r.contract_name \notin ContractNames
    <3>1. IngestedRows' = IngestedRows
      BY <2>1, <2>4 DEF IngestedRows
    <3> QED BY <1>2, <2>1, <2>2, <3>1
  <2> QED BY <2>3, <2>4
<1>6. CASE Crash
  BY <1>1, <1>3, <1>6 DEF Crash, provider, database
<1>7. CASE FetchCurrentBlockNumber \/ OpenStream \/ StreamChunk \/ \E f \in pending : FetchLogs(f)
  BY <1>3, <1>7 DEF FetchCurrentBlockNumber, OpenStream, StreamChunk, FetchLogs, provider, database
<1>8. CASE IngestEvents
  BY <1>8, IngestAdvancesFeed DEF Feed!Next
<1>9. CASE HandleChainReorg
  BY <1>1, <1>2, <1>9, RepairOfFeed DEF Feed!Next
<1>10. CASE FinishPass
  BY <1>1, <1>2, <1>10, PruneOfFeed DEF Feed!Next
<1>11. CASE UNCHANGED vars
  BY <1>3, <1>11 DEF vars, provider, database
<1> QED BY <1>4, <1>5, <1>6, <1>7, <1>8, <1>9, <1>10, <1>11 DEF Next, Ingest

LEMMA InitImplementsFeed == Init => Feed!Init
<1> SUFFICES ASSUME Init PROVE Feed!Init
  OBVIOUS
<1>1. \A r \in ConfiguredRows : \A b \in BlockNumbers : StoredAt(r, b) = {}
  BY DEF Init, StoredAt
<1>2. IngestedRows \subseteq ConfiguredRows
  BY ContractAddressesAssumption DEF Init, IngestedRows, ConfiguredRows
<1>3. \A r \in ConfiguredRows : next_block_number_to_ingest_from[r] = r.start_block_number
  BY DEF Init, ConfiguredRows
<1> QED BY <1>1, <1>2, <1>3 DEF Init, Feed!Init

\* The ingester keeps what it promises the handlers: with no address shared between
\* chains, every behaviour of Ingester is one of EventFeed.
THEOREM IngesterImplementsFeed ==
    ASSUME AddressesNotShared
    PROVE  Spec => ImplementsFeed
<1>1. FeedInv /\ [Next]_vars => [Feed!Next]_Feed!vars
  BY StepImplementsFeed
<1> QED BY <1>1, InitImplementsFeed, FeedInvariant, PTL DEF Spec, ImplementsFeed, Feed!Spec

-----------------------------------------------------------------------------
(* What follows from the feed alone: no block behind a cursor is forgotten *)

LEMMA CoverageStep ==
    ASSUME TypeOK, Feed!Coverage, [Feed!Next]_Feed!vars
    PROVE  Feed!Coverage'
<1> DEFINE Covered(r, b) == \E v \in Feed!Versions(r, b) : v \subseteq FeedMirror[r][b]
           Behind(r, b) == /\ r.start_block_number <= b /\ b < FeedCursor[r]
                           /\ b >= pruned_below[r.chain_id]
<1>1. /\ Feed!Coverage <=> \A r \in ConfiguredRows : \A b \in BlockNumbers : Behind(r, b) => Covered(r, b)
      /\ Feed!Coverage' <=> \A r \in ConfiguredRows : \A b \in BlockNumbers : Behind(r, b)' => Covered(r, b)'
  BY DEF Feed!Coverage, FeedCursor, FeedMirror
<1> SUFFICES ASSUME NEW r \in ConfiguredRows, NEW b \in BlockNumbers, Behind(r, b)'
             PROVE  Covered(r, b)'
  BY <1>1
<1>2. /\ r.chain_id \in ChainIds /\ b \in Nat /\ FeedCursor[r] \in Nat
      /\ pruned_below \in [ChainIds -> Nat]
  BY RowTypes, BoundsAssumption DEF ConfiguredRows, FeedCursor, BlockNumbers, TypeOK
<1>3. Behind(r, b) => Covered(r, b)
  BY <1>1
<1>4. CASE Feed!Advance
  <2>1. UNCHANGED <<served, pruned_below>>
    BY <1>4 DEF Feed!Advance
  <2>2. Feed!Versions(r, b)' = Feed!Versions(r, b)
    BY <2>1 DEF Feed!Versions
  <2>3. IF FeedCursor[r] <= b /\ b < FeedCursor'[r]
        THEN \E v \in Feed!Versions(r, b) : FeedMirror'[r][b] = FeedMirror[r][b] \cup v
        ELSE FeedMirror'[r][b] = FeedMirror[r][b]
    BY <1>4 DEF Feed!Advance, Feed!Passed, FeedMirror, FeedCursor
  <2> QED BY <1>2, <1>3, <2>1, <2>2, <2>3
<1>5. ASSUME NEW c \in DOMAIN pruned_below, Feed!Repair(c)  PROVE Covered(r, b)'
  <2>1. UNCHANGED <<served, pruned_below, FeedCursor>>
    BY <1>5 DEF Feed!Repair, FeedCursor
  <2>2. Feed!Versions(r, b)' = Feed!Versions(r, b)
    BY <2>1 DEF Feed!Versions
  <2>3. FeedMirror'[r][b] # FeedMirror[r][b] =>
          FeedMirror'[r][b] \in Feed!Versions(r, b) \/ b >= FeedCursor[r]
    BY <1>5 DEF Feed!Repair, Feed!Changed, FeedMirror, FeedCursor
  <2> QED BY <1>2, <1>3, <2>1, <2>2, <2>3
<1>6. ASSUME NEW c \in DOMAIN pruned_below, Feed!Prune(c)  PROVE Covered(r, b)'
  <2>1. UNCHANGED <<served, FeedCursor>>
    BY <1>6 DEF Feed!Prune, FeedCursor
  <2>2. Feed!Versions(r, b)' = Feed!Versions(r, b)
    BY <2>1 DEF Feed!Versions
  <2>3. PICK below \in BlockNumbers :
          /\ FeedMirror' = [s \in ConfiguredRows |-> [a \in BlockNumbers |->
                              IF s.chain_id = c /\ a < below THEN {} ELSE FeedMirror[s][a]]]
          /\ pruned_below' = [pruned_below EXCEPT ![c] = IF @ >= below THEN @ ELSE below]
    BY <1>6 DEF Feed!Prune, FeedMirror
  <2>4. below \in Nat /\ pruned_below'[r.chain_id] \in Nat /\ pruned_below[r.chain_id] \in Nat
    BY <1>2, <2>3, BoundsAssumption DEF BlockNumbers
  <2>5. pruned_below[r.chain_id] <= pruned_below'[r.chain_id]
    BY <1>2, <2>3, <2>4
  <2>6. r.chain_id = c => below <= pruned_below'[r.chain_id]
    BY <1>2, <2>3, <2>4
  <2>7. FeedMirror'[r][b] = FeedMirror[r][b]
    BY <1>2, <2>3, <2>4, <2>6
  <2>8. Behind(r, b)
    BY <1>2, <2>1, <2>4, <2>5
  <2> QED BY <1>3, <2>2, <2>7, <2>8
<1>7. CASE Feed!Serve \/ \E s \in ConfiguredRows : Feed!Include(s)
  <2>1. served \subseteq served' /\ UNCHANGED <<FeedMirror, FeedCursor, pruned_below>>
    BY <1>7 DEF Feed!Serve, Feed!Include, FeedMirror, FeedCursor
  <2>2. Feed!Versions(r, b) \subseteq Feed!Versions(r, b)'
    BY <2>1 DEF Feed!Versions
  <2> QED BY <1>3, <2>1, <2>2
<1>8. CASE UNCHANGED Feed!vars
  <2>1. served' = served /\ UNCHANGED <<FeedMirror, FeedCursor, pruned_below>>
    BY <1>8 DEF Feed!vars, FeedMirror, FeedCursor
  <2>2. Feed!Versions(r, b)' = Feed!Versions(r, b)
    BY <2>1 DEF Feed!Versions
  <2> QED BY <1>3, <2>1, <2>2
<1> QED BY <1>4, <1>5, <1>6, <1>7, <1>8 DEF Feed!Next

\* No block behind an ingest cursor is forgotten, in spite of crashes between the
\* two transactions of a pass and of re-organizations at any moment, as long as no
\* address is shared between chains.
THEOREM NoBlockForgotten ==
    ASSUME AddressesNotShared
    PROVE  Spec => []CursorCoverage
<1>1. Init => Feed!Coverage
  <2> SUFFICES ASSUME Init PROVE Feed!Coverage
    OBVIOUS
  <2>1. \A r \in ConfiguredRows : next_block_number_to_ingest_from[r] = r.start_block_number
                                  /\ r.start_block_number \in Nat
    BY ContractAddressesAssumption DEF Init, ConfiguredRows
  <2>2. BlockNumbers \subseteq Nat
    BY BoundsAssumption DEF BlockNumbers
  <2> QED BY <2>1, <2>2 DEF Feed!Coverage
<1>2. FeedInv /\ Feed!Coverage /\ [Next]_vars => Feed!Coverage'
  BY StepImplementsFeed, CoverageStep DEF FeedInv, AtomicityInv
<1>3. FeedInv /\ Feed!Coverage => CursorCoverage
  <2> SUFFICES ASSUME FeedInv, Feed!Coverage,
                      NEW r \in IngestedRows, NEW b \in IngestedBlocks(r)
               PROVE  \E h \in ServedAt(r.chain_id, b) : SubscribedLogs(r, h) \subseteq StoredAt(r, b)
    BY DEF CursorCoverage
  <2>1. TypeOK /\ r \in ConfiguredRows /\ b \in BlockNumbers
    BY DEF FeedInv, AtomicityInv, TypeOK, IngestedRows, ConfiguredRows, IngestedBlocks
  <2>2. \E v \in Feed!Versions(r, b) : v \subseteq StoredAt(r, b)
    BY <2>1 DEF Feed!Coverage, IngestedBlocks
  <2> QED BY <2>1, <2>2, FeedVersions
<1> QED BY <1>1, <1>2, <1>3, FeedInvariant, PTL DEF Spec

LEMMA ChangeIsAnnounced ==
    ASSUME FeedInv, AddressesNotShared, [Next]_vars,
           NEW r \in contract_addresses, NEW l \in Logs, BelongsTo(l, r),
           l.block_number < next_block_number_to_ingest_from[r],
           (events[l] > 0) # (events'[l] > 0), pc' # "start"
    PROVE  \E i \in DOMAIN reorged_blocks' \ DOMAIN reorged_blocks :
              /\ reorged_blocks'[i].chain_id = l.chain_id
              /\ reorged_blocks'[i].block_number <= l.block_number
<1>1. TypeOK /\ FiltersOfChain /\ FilterRanges /\ AnswersAreVersions /\ r \in ContractAddresses
  BY DEF FeedInv, AtomicityInv, TypeOK
<1>2. CASE IngestEvents
  <2>1. l \in logs /\ events[l] = 0
    BY <1>1, <1>2 DEF IngestEvents, WithCreated, TypeOK
  <2>2. PICK f \in filters : FilterMatches(l, f)
    BY <1>1, <2>1 DEF AnswersAreVersions
  <2>3. f.row = r
    BY <1>1, <2>2, ContractAddressesAssumption DEF FilterMatches, BelongsTo, TypeOK, Filters
  <2>4. f.from = next_block_number_to_ingest_from[r]
    BY <1>1, <1>2, <2>3 DEF FilterRanges, IngestEvents
  <2>5. f.from \in Nat /\ l.block_number \in Nat
    BY <1>1, LogsAssumption, BoundsAssumption DEF TypeOK, Filters, BlockNumbers
  <2> QED BY <2>2, <2>4, <2>5 DEF FilterMatches, IsInRange
<1>3. CASE HandleChainReorg
  <2> DEFINE ingested == AlreadyIngestedEvents(filters)
             added    == AddedEvents(ingested, logs)
             removed  == RemovedEvents(ingested, logs)
             changed  == added \cup removed
             row      == [chain_id |-> chain, block_number |-> EarliestBlockNumber(changed)]
  <2>1. /\ events' = WithCreated(WithDeleted(events, removed), added)
        /\ reorged_blocks' = Append(reorged_blocks, row)
    BY <1>3 DEF HandleChainReorg
  <2>2. l \in changed
    <3> HIDE DEF added, removed
    <3> QED BY <2>1 DEF WithCreated, WithDeleted
  <2>3. PICK f \in filters : BelongsTo(l, f.row)
    BY <2>2, ChangesInRange
  <2>4. l.chain_id = chain
    BY <1>1, <2>3 DEF FiltersOfChain, BelongsTo
  <2>5. changed \subseteq Logs
    BY <1>1 DEF AddedEvents, RemovedEvents, AlreadyIngestedEvents, GetEvents, TypeOK
  <2>6. EarliestBlockNumber(changed) <= l.block_number
    <3> HIDE DEF changed
    <3> QED BY <2>2, <2>5, EarliestBlockNumberIsLeast
  <2>7. Len(reorged_blocks) + 1 \in DOMAIN reorged_blocks' \ DOMAIN reorged_blocks
        /\ reorged_blocks'[Len(reorged_blocks) + 1] = row
    <3>1. reorged_blocks \in Seq([chain_id : ChainIds, block_number : BlockNumbers])
      BY <1>1 DEF TypeOK
    <3> HIDE DEF row
    <3> QED BY <2>1, <3>1
  <2>8. row.chain_id = l.chain_id /\ row.block_number <= l.block_number
    <3> HIDE DEF changed
    <3> QED BY <2>4, <2>6
  <2> HIDE DEF row
  <2> QED BY <2>7, <2>8
<1>4. CASE FinishPass
  BY <1>4 DEF FinishPass
<1>5. ASSUME NEW c \in ChainIds, MineBlock(c) \/ Reorg(c)  PROVE events' = events
  BY <1>1, <1>5, EnvironmentSteps DEF database
<1>6. ASSUME NEW s \in ContractAddresses, IncludeContract(s)  PROVE events' = events
  BY <1>6 DEF IncludeContract
<1>7. ASSUME NEW f \in pending, FetchLogs(f)  PROVE events' = events
  BY <1>7 DEF FetchLogs, database
<1>8. Crash \/ FetchCurrentBlockNumber \/ OpenStream \/ StreamChunk \/ UNCHANGED vars
      => events' = events
  BY DEF Crash, FetchCurrentBlockNumber, OpenStream, StreamChunk, vars, database
<1> QED BY <1>2, <1>3, <1>4, <1>5, <1>6, <1>7, <1>8 DEF Next, Ingest

\* No event the handlers may have handled changes behind their back: each change
\* comes with a row of chaindexing_reorged_blocks that goes back far enough.
THEOREM HandledChangesAnnounced ==
    ASSUME AddressesNotShared
    PROVE  Spec => ChangesAnnounced
<1> DEFINE A == \A r \in contract_addresses : \A l \in Logs :
          /\ BelongsTo(l, r)
          /\ l.block_number < next_block_number_to_ingest_from[r]
          /\ (events[l] > 0) # (events'[l] > 0)
          /\ pc' # "start"
          => \E i \in DOMAIN reorged_blocks' \ DOMAIN reorged_blocks :
                /\ reorged_blocks'[i].chain_id = l.chain_id
                /\ reorged_blocks'[i].block_number <= l.block_number
<1>1. FeedInv /\ [Next]_vars => [A]_vars
  BY ChangeIsAnnounced
<1> HIDE DEF A
<1>2. Spec => [][A]_vars
  BY <1>1, FeedInvariant, PTL DEF Spec
<1> QED BY <1>2 DEF ChangesAnnounced, A
=============================================================================
