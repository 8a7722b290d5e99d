---------------------------- MODULE MirrorProofs ----------------------------
(***************************************************************************)
(* What Ingester guarantees of the table and of the rows it announces, on  *)
(* chains that grow and re-organize at any moment.                         *)
(*                                                                         *)
(* The confirmation filter of the code is not capped by the block number   *)
(* the pass began with: a repair may store a block mined since, ahead of   *)
(* the cursor, and announce it as a re-organization.  The theorems say     *)
(* that this is the only exception: every other block behind a cursor is   *)
(* mirrored, and every other row of chaindexing_reorged_blocks stands for  *)
(* a re-organization.                                                      *)
(***************************************************************************)
EXTENDS FeedProofs

-----------------------------------------------------------------------------
(* The inductive invariant *)

\* A row of the chunk has its batch, unless that is one block of which something
\* is stored already: a repair stored it, for the cursor is only there.
NoRowLeftOut ==
    pc = "ingest" => \A a \in Configured(addresses) :
        \/ \E f \in filters : /\ f.row = a.row
                              /\ f.to = MainToBlock(a.next, current_block_number)
        \/ /\ MainToBlock(a.next, current_block_number) = a.next
           /\ StoredAt(a.row, a.next) # {}

\* The confirmation asks for blocks the cursor has passed, for blocks past the
\* pass's block number, and maybe for the one the batch was left out for.
ConfirmsBehindCursor ==
    pc = "confirm" => \A f \in filters :
        LET next == next_block_number_to_ingest_from[f.row] IN
        \/ f.to < next
        \/ current_block_number < next
        \/ Smaller(f.to, current_block_number) = next /\ StoredAt(f.row, next) # {}

StoredAheadIsEarly ==
    \A r \in ConfiguredRows : \A l \in Logs :
        BelongsTo(l, r) /\ events[l] > 0 =>
            \/ l.block_number < next_block_number_to_ingest_from[r]
            \/ IsEarly(r, l.block_number)

StoredOnce ==
    \A r \in ConfiguredRows : \A l \in Logs :
        BelongsTo(l, r) /\ ~ IsEarly(r, l.block_number) => events[l] <= 1

IsMirrored(r, b) == \E h \in ServedAt(r.chain_id, b) : StoredAt(r, b) = SubscribedLogs(r, h)

Mirrored ==
    \A r \in ConfiguredRows : \A b \in IngestedBlocks(r) : ~ IsEarly(r, b) => IsMirrored(r, b)

TableInv == StoredAheadIsEarly /\ StoredOnce /\ Mirrored

\* A stored event is one its row subscribes to, of a block that was served.
WasServed(l) ==
    \E r \in ConfiguredRows : /\ l \in SubscribedLogs(r, l.block_hash)
                             /\ l.block_hash \in ServedAt(l.chain_id, l.block_number)

StoredWereServed == \A l \in Logs : events[l] > 0 => WasServed(l)

MirrorInv ==
    /\ FeedInv /\ NoRowLeftOut /\ ConfirmsBehindCursor
    /\ TableInv /\ StoredWereServed

-----------------------------------------------------------------------------
(* Rows and their filters *)

\* Only a filter of one block can look ingested already, and then something of the
\* row's own is stored there.
LEMMA NoRowLeftOutStep ==
    ASSUME AddressesNotShared, FeedInv, NoRowLeftOut, [Next]_vars
    PROVE  NoRowLeftOut'
<1>1. TypeOK /\ StoredBelong
  BY DEF FeedInv, AtomicityInv
<1>2. ASSUME UNCHANGED <<pc, addresses, filters, current_block_number, events>>
      PROVE  NoRowLeftOut'
  BY <1>2 DEF NoRowLeftOut, Configured, StoredAt
<1>3. CASE pc' # "ingest"
  BY <1>3 DEF NoRowLeftOut
<1>4. CASE StreamChunk
  <2> DEFINE found == RowsBetween(chain, from, from + ChunkSize)
             mains == MainFilters(addresses', current_block_number)
  <2>1. /\ addresses' = FilterUningested(found, current_block_number)
        /\ filters' = RemoveAlreadyIngested(mains)
        /\ current_block_number' = current_block_number
    BY <1>4 DEF StreamChunk
  <2>2. found \subseteq ContractAddresses
    BY <1>1 DEF RowsBetween, RowsOf, TypeOK
  <2>3. ASSUME NEW a \in Configured(addresses')
        PROVE  \/ \E f \in filters' : /\ f.row = a.row
                                     /\ f.to = MainToBlock(a.next, current_block_number)
               \/ /\ MainToBlock(a.next, current_block_number) = a.next
                  /\ StoredAt(a.row, a.next) # {}
    <3> DEFINE f == [row |-> a.row, from |-> a.next,
                     to |-> MainToBlock(a.next, current_block_number)]
    <3>1. f \in mains
      BY DEF MainFilters
    <3>2. /\ a.row \in ConfiguredRows /\ a.row \in ContractAddresses
          /\ a.next = next_block_number_to_ingest_from[a.row]
      BY <2>1, <2>2 DEF Configured, FilterUningested, ConfiguredRows
    <3>3. ASSUME f.from = f.to, IsLatestIngestedBlock(f.row.address, f.to)
          PROVE  StoredAt(a.row, a.next) # {}
      <4>1. PICK l \in Logs : /\ events[l] > 0 /\ l.address = a.row.address
                              /\ l.block_number = a.next
        BY <3>3 DEF IsLatestIngestedBlock
      <4>2. PICK r \in ContractAddresses : BelongsTo(l, r)
        BY <1>1, <4>1 DEF StoredBelong
      <4>3. r = a.row
        BY <3>2, <4>1, <4>2 DEF AddressesNotShared, BelongsTo
      <4>4. l \in StoredAt(a.row, a.next)
        BY <4>1, <4>2, <4>3 DEF StoredAt
      <4> QED BY <4>4
    <3>4. CASE f.from = f.to /\ IsLatestIngestedBlock(f.row.address, f.to)
      BY <3>3, <3>4
    <3>5. CASE ~ (f.from = f.to /\ IsLatestIngestedBlock(f.row.address, f.to))
      <4>1. f.row = a.row /\ f.to = MainToBlock(a.next, current_block_number)
        OBVIOUS
      <4> HIDE DEF f
      <4>2. f \in filters'
        BY <2>1, <3>1, <3>5 DEF RemoveAlreadyIngested
      <4> QED BY <4>1, <4>2
    <3> QED BY <3>4, <3>5
  <2>4. events' = events
    BY <1>4 DEF StreamChunk, database
  <2> QED BY <2>1, <2>3, <2>4 DEF NoRowLeftOut, Configured, StoredAt
<1>5. ASSUME NEW c \in ChainIds, MineBlock(c) \/ Reorg(c)  PROVE NoRowLeftOut'
  BY <1>1, <1>2, <1>5, EnvironmentSteps DEF database, locals
<1>6. ASSUME NEW r \in ContractAddresses, IncludeContract(r)  PROVE NoRowLeftOut'
  BY <1>2, <1>6 DEF IncludeContract, locals
<1>7. ASSUME NEW f \in pending, FetchLogs(f)  PROVE NoRowLeftOut'
  BY <1>2, <1>7 DEF FetchLogs, database
<1>8. CASE Crash \/ FetchCurrentBlockNumber \/ OpenStream \/ IngestEvents \/ HandleChainReorg
           \/ FinishPass
  BY <1>3, <1>8 DEF Crash, FetchCurrentBlockNumber, OpenStream, IngestEvents,
                    HandleChainReorg, FinishPass
<1>9. CASE UNCHANGED vars
  BY <1>2, <1>9 DEF vars, database, locals
<1> QED BY <1>4, <1>5, <1>6, <1>7, <1>8, <1>9 DEF Next, Ingest

LEMMA ConfirmsBehindCursorStep ==
    ASSUME FeedInv, NoRowLeftOut, ConfirmsBehindCursor, [Next]_vars
    PROVE  ConfirmsBehindCursor'
<1>1. TypeOK /\ OnePerRow /\ FilterRanges
  BY DEF FeedInv, AtomicityInv
<1>2. ASSUME UNCHANGED <<pc, filters, current_block_number, next_block_number_to_ingest_from, events>>
      PROVE  ConfirmsBehindCursor'
  BY <1>2 DEF ConfirmsBehindCursor, StoredAt
<1>3. CASE pc' # "confirm"
  BY <1>3 DEF ConfirmsBehindCursor
<1>4. CASE IngestEvents
  <2> DEFINE next == next_block_number_to_ingest_from
  <2>1. /\ pc = "ingest" /\ current_block_number' = current_block_number
        /\ filters' = ConfirmationFilters(addresses, current_block_number)
        /\ events' = WithCreated(events, logs)
    BY <1>4 DEF IngestEvents
  <2>2. current_block_number \in Nat /\ \A a \in addresses : a \in Addresses
    BY <1>1 DEF TypeOK
  <2>3. \A l \in Logs : events[l] > 0 => events'[l] > 0
    BY <1>1, <2>1 DEF WithCreated, TypeOK
  <2>4. ASSUME NEW g \in filters'
        PROVE  \/ g.to < next'[g.row]
               \/ current_block_number < next'[g.row]
               \/ /\ Smaller(g.to, current_block_number) = next'[g.row]
                  /\ StoredAt(g.row, next[g.row])' # {}
    <3>1. PICK a \in Configured(addresses) :
             g.row = a.row /\ g.to = a.next + BlocksPerBatch
      BY <2>1 DEF ConfirmationFilters, ConfirmationToBlock
    <3>2. /\ a \in addresses /\ a.row \in ContractAddresses /\ a.next \in Nat
          /\ a.next = next[a.row] /\ a.next <= current_block_number
      BY <1>1, <2>1, <2>2 DEF Configured, Addresses, FilterRanges
    <3>3. CASE \E f \in filters : f.row = a.row /\ f.to = MainToBlock(a.next, current_block_number)
      <4>1. next'[a.row] = MainToBlock(a.next, current_block_number) + 1
        BY <1>1, <1>4, <3>2, <3>3, CursorsPassFilters
      <4> HIDE DEF next
      <4> QED BY <2>2, <3>1, <3>2, <4>1, BlocksPerBatchAssumption DEF MainToBlock, Smaller
    <3>4. CASE /\ MainToBlock(a.next, current_block_number) = a.next
               /\ StoredAt(a.row, a.next) # {}
      <4>1. g.to = a.next \/ current_block_number = a.next
        BY <2>2, <3>1, <3>2, <3>4, BlocksPerBatchAssumption DEF MainToBlock, Smaller
      <4>2. CASE \E f \in filters : f.row = a.row
        <5>1. PICK f \in filters : f.row = a.row
          BY <4>2
        <5>2. f.from = a.next /\ f.from <= f.to /\ f.from \in Nat /\ f.to \in Nat
          BY <1>1, <2>1, <3>2, <5>1 DEF FilterRanges, TypeOK, Filters
        <5>3. next'[a.row] = f.to + 1
          BY <1>1, <1>4, <3>2, <5>1, CursorsPassFilters
        <5> HIDE DEF next
        <5> QED BY <2>2, <3>1, <3>2, <4>1, <5>2, <5>3
      <4>3. CASE \A f \in filters : f.row # a.row
        <5>1. next'[a.row] = a.next
          BY <1>1, <1>4, <3>2, <4>3, CursorsPassFilters
        <5>2. Smaller(g.to, current_block_number) = a.next
          BY <2>2, <3>1, <3>2, <4>1, BlocksPerBatchAssumption DEF Smaller
        <5>3. StoredAt(a.row, a.next)' # {}
          BY <2>3, <3>4 DEF StoredAt
        <5>4. StoredAt(g.row, next[g.row])' = StoredAt(a.row, a.next)'
          BY <3>1, <5>1 DEF StoredAt
        <5> HIDE DEF next
        <5> QED BY <3>1, <5>1, <5>2, <5>3, <5>4
      <4> QED BY <4>2, <4>3
    <3> QED BY <2>1, <3>1, <3>3, <3>4 DEF NoRowLeftOut
  <2> QED BY <2>1, <2>4 DEF ConfirmsBehindCursor, StoredAt
<1>5. ASSUME NEW c \in ChainIds, MineBlock(c) \/ Reorg(c)  PROVE ConfirmsBehindCursor'
  BY <1>1, <1>2, <1>5, EnvironmentSteps DEF locals, database
<1>6. ASSUME NEW r \in ContractAddresses, IncludeContract(r)  PROVE ConfirmsBehindCursor'
  BY <1>2, <1>6 DEF IncludeContract, locals
<1>7. ASSUME NEW f \in pending, FetchLogs(f)  PROVE ConfirmsBehindCursor'
  BY <1>2, <1>7 DEF FetchLogs, database
<1>8. CASE Crash \/ FetchCurrentBlockNumber \/ OpenStream \/ StreamChunk \/ HandleChainReorg
           \/ FinishPass
  BY <1>3, <1>8 DEF Crash, FetchCurrentBlockNumber, OpenStream, StreamChunk,
                    HandleChainReorg, FinishPass
<1>9. CASE UNCHANGED vars
  BY <1>2, <1>9 DEF vars, locals, database
<1> QED BY <1>4, <1>5, <1>6, <1>7, <1>8, <1>9 DEF Next, Ingest

-----------------------------------------------------------------------------
(* The table *)

LEMMA OneRowPerLog ==
    ASSUME NEW r \in ContractAddresses, NEW s \in ContractAddresses, NEW l,
           BelongsTo(l, r), BelongsTo(l, s)
    PROVE  r = s
  BY ContractAddressesAssumption DEF BelongsTo

LEMMA TableKept ==
    ASSUME TableInv, served \subseteq served',
           UNCHANGED <<next_block_number_to_ingest_from, events, pruned_below, stored_early>>
    PROVE  TableInv'
<1>1. \A r, b : IsEarly(r, b)' = IsEarly(r, b)
  BY DEF IsEarly
<1>2. StoredAheadIsEarly' /\ StoredOnce'
  BY <1>1 DEF TableInv, StoredAheadIsEarly, StoredOnce
<1>3. ASSUME NEW r \in ConfiguredRows, NEW b \in BlockNumbers, b \in IngestedBlocks(r)',
             ~ IsEarly(r, b)'
      PROVE  IsMirrored(r, b)'
  <2>1. b \in IngestedBlocks(r)
    BY <1>3 DEF IngestedBlocks
  <2>2. PICK h \in ServedAt(r.chain_id, b) : StoredAt(r, b) = SubscribedLogs(r, h)
    BY <1>1, <1>3, <2>1 DEF TableInv, Mirrored, IsMirrored
  <2>3. h \in ServedAt(r.chain_id, b)' /\ StoredAt(r, b)' = StoredAt(r, b)
    BY DEF ServedAt, StoredAt
  <2> QED BY <2>2, <2>3 DEF IsMirrored
<1>4. Mirrored'
  BY <1>3 DEF Mirrored, IngestedBlocks
<1> QED BY <1>2, <1>4 DEF TableInv

\* A block is mirrored by what is stored of it, while no version is forgotten.
LEMMA MirroredBlockKept ==
    ASSUME served \subseteq served', NEW r, NEW b, IsMirrored(r, b),
           \A l \in Logs : BelongsTo(l, r) /\ l.block_number = b => (events'[l] > 0 <=> events[l] > 0)
    PROVE  IsMirrored(r, b)'
<1>1. PICK h \in ServedAt(r.chain_id, b) : StoredAt(r, b) = SubscribedLogs(r, h)
  BY DEF IsMirrored
<1>2. h \in ServedAt(r.chain_id, b)' /\ StoredAt(r, b)' = StoredAt(r, b)
  BY DEF ServedAt, StoredAt
<1> QED BY <1>1, <1>2 DEF IsMirrored

\* A batch fills blocks of which nothing is stored, those stored early excepted.
LEMMA IngestKeepsTable ==
    ASSUME FeedInv, TableInv, IngestEvents
    PROVE  TableInv'
<1> DEFINE next == next_block_number_to_ingest_from
<1>1. TypeOK /\ FiltersOfChain /\ OnePerRow /\ FilterRanges /\ AnswersAreVersions
  BY DEF FeedInv, AtomicityInv
<1>2. /\ events' = WithCreated(events, logs) /\ served' = served /\ pruned_below' = pruned_below
      /\ pending = {} /\ pc = "ingest" /\ logs \subseteq Logs
      /\ \A r, b : IsEarly(r, b)' = IsEarly(r, b)
  BY <1>1 DEF IngestEvents, provider, TypeOK, IsEarly
<1>3. ASSUME NEW f \in filters
      PROVE  /\ f.row \in ConfiguredRows /\ f.row \in ContractAddresses
             /\ f.from \in Nat /\ f.to \in Nat /\ f.from <= f.to
             /\ next[f.row] = f.from /\ next'[f.row] = f.to + 1
  <2>1. f.row \in ContractAddresses /\ f.from \in Nat /\ f.to \in Nat
    BY <1>1 DEF TypeOK, Filters
  <2>2. f.row \in ConfiguredRows
    BY <1>1, <2>1 DEF FiltersOfChain, ConfiguredRows
  <2>3. next[f.row] = f.from /\ f.from <= f.to
    BY <1>1, <1>2 DEF FilterRanges
  <2>4. next'[f.row] = f.to + 1
    BY <1>1, <2>1, CursorsPassFilters
  <2> QED BY <2>1, <2>2, <2>3, <2>4
<1>4. ASSUME NEW r \in ConfiguredRows
      PROVE  /\ r \in ContractAddresses /\ next[r] \in Nat /\ next'[r] \in Nat /\ next[r] <= next'[r]
             /\ (\A f \in filters : f.row # r) => next'[r] = next[r]
  <2>1. r \in ContractAddresses /\ next[r] \in Nat
    BY <1>1, RowTypes DEF ConfiguredRows
  <2>2. (\A f \in filters : f.row # r) => next'[r] = next[r]
    BY <1>1, <2>1, CursorsPassFilters
  <2>3. ASSUME NEW f \in filters, f.row = r  PROVE next'[r] \in Nat /\ next[r] <= next'[r]
    <3>1. f.from \in Nat /\ f.to \in Nat /\ f.from <= f.to /\ next[r] = f.from /\ next'[r] = f.to + 1
      BY <1>3, <2>3
    <3> HIDE DEF next
    <3> QED BY <3>1
  <2> QED BY <2>1, <2>2, <2>3
<1>5. ASSUME NEW r \in ConfiguredRows, NEW l \in Logs, BelongsTo(l, r), l \in logs
      PROVE  /\ \E f \in filters : f.row = r /\ f.from <= l.block_number /\ l.block_number <= f.to
             /\ events[l] = 0 \/ IsEarly(r, l.block_number)
  <2>1. PICK f \in filters : FilterMatches(l, f)
    BY <1>1, <1>5 DEF AnswersAreVersions
  <2>2. BelongsTo(l, f.row) /\ f.from <= l.block_number /\ l.block_number <= f.to
    BY <2>1 DEF FilterMatches, BelongsTo, IsInRange
  <2>3. f.row = r
    BY <1>3, <1>4, <1>5, <2>2, OneRowPerLog
  <2>4. l.block_number \in Nat /\ events[l] \in Nat
    BY <1>1, LogsAssumption, BoundsAssumption DEF TypeOK, BlockNumbers
  <2>5. events[l] > 0 => l.block_number < next[r] \/ IsEarly(r, l.block_number)
    BY <1>5 DEF TableInv, StoredAheadIsEarly
  <2>6. f.from \in Nat /\ next[r] = f.from
    BY <1>3, <2>3
  <2> HIDE DEF next
  <2> QED BY <2>2, <2>3, <2>4, <2>5, <2>6
<1>6. \A l \in Logs : events'[l] = IF l \in logs THEN events[l] + 1 ELSE events[l]
  BY <1>2 DEF WithCreated
<1>7. StoredOnce'
  BY <1>2, <1>5, <1>6 DEF TableInv, StoredOnce
<1>8. StoredAheadIsEarly'
  <2>1. ASSUME NEW r \in ConfiguredRows, NEW l \in Logs, BelongsTo(l, r), events'[l] > 0
        PROVE  l.block_number < next'[r] \/ IsEarly(r, l.block_number)
    <3>1. l.block_number \in Nat
      BY LogsAssumption, BoundsAssumption DEF BlockNumbers
    <3>2. CASE l \in logs
      <4>1. PICK f \in filters : f.row = r /\ f.from <= l.block_number /\ l.block_number <= f.to
        BY <1>5, <2>1, <3>2
      <4>2. f.to \in Nat /\ next'[r] = f.to + 1
        BY <1>3, <4>1
      <4> HIDE DEF next
      <4> QED BY <3>1, <4>1, <4>2
    <3>3. CASE l \notin logs
      <4>1. l.block_number < next[r] \/ IsEarly(r, l.block_number)
        BY <1>6, <2>1, <3>3 DEF TableInv, StoredAheadIsEarly
      <4>2. next[r] \in Nat /\ next'[r] \in Nat /\ next[r] <= next'[r]
        BY <1>4
      <4> HIDE DEF next
      <4> QED BY <3>1, <4>1, <4>2
    <3> QED BY <3>2, <3>3
  <2> QED BY <1>2, <2>1 DEF StoredAheadIsEarly
<1>9. ASSUME NEW r \in ConfiguredRows, NEW b \in BlockNumbers, b \in IngestedBlocks(r)',
             ~ IsEarly(r, b)
      PROVE  IsMirrored(r, b)'
  <2>1. b \in Nat /\ r.start_block_number <= b /\ b < next'[r] /\ b >= pruned_below[r.chain_id]
    BY <1>2, <1>9, BoundsAssumption DEF IngestedBlocks, BlockNumbers
  <2>2. CASE b < next[r]
    <3>1. IsMirrored(r, b)
      BY <1>9, <2>1, <2>2 DEF TableInv, Mirrored, IngestedBlocks
    <3>2. ASSUME NEW l \in Logs, BelongsTo(l, r), l.block_number = b
          PROVE  l \notin logs
      <4>1. SUFFICES ASSUME l \in logs PROVE FALSE
        OBVIOUS
      <4>2. PICK f \in filters : f.row = r /\ f.from <= b
        BY <1>5, <3>2, <4>1
      <4>3. f.from = next[r] /\ next[r] \in Nat
        BY <1>3, <1>4, <4>2
      <4> HIDE DEF next
      <4> QED BY <2>1, <2>2, <4>2, <4>3
    <3> QED BY <1>2, <1>6, <3>1, <3>2, MirroredBlockKept
  <2>3. CASE ~ (b < next[r])
    <3>1. PICK f \in filters : f.row = r
      BY <1>4, <2>1, <2>3
    <3>2. f.from <= b /\ b <= f.to
      <4>1. /\ f.from \in Nat /\ f.to \in Nat /\ next[r] = f.from /\ next'[r] = f.to + 1
        BY <1>3, <3>1
      <4> HIDE DEF next
      <4> QED BY <2>1, <2>3, <4>1
    <3>3. PICK h \in ServedAt(r.chain_id, b) : LogsAt(r, b) = SubscribedLogs(r, h)
      BY <1>1, <1>2, <3>1, <3>2 DEF AnswersAreVersions
    <3>4. StoredAt(r, b)' = LogsAt(r, b)
      <4>1. ASSUME NEW l \in Logs, BelongsTo(l, r), l.block_number = b
            PROVE  events'[l] > 0 <=> l \in logs
        <5>1. events[l] \in Nat
          BY <1>1 DEF TypeOK
        <5>2. ~ (events[l] > 0)
          BY <1>9, <2>3, <4>1 DEF TableInv, StoredAheadIsEarly
        <5> QED BY <1>6, <5>1, <5>2
      <4> QED BY <1>2, <4>1 DEF StoredAt, LogsAt
    <3>5. h \in ServedAt(r.chain_id, b)'
      BY <1>2 DEF ServedAt
    <3> QED BY <3>3, <3>4, <3>5 DEF IsMirrored
  <2> QED BY <2>2, <2>3
<1>10. Mirrored'
  BY <1>2, <1>9 DEF Mirrored, IngestedBlocks
<1> QED BY <1>7, <1>8, <1>10 DEF TableInv

\* A repair replaces versions of blocks by others, and adds nothing past a cursor
\* but at blocks stored early.
LEMMA RepairKeepsTable ==
    ASSUME AddressesNotShared, MirrorInv, HandleChainReorg
    PROVE  TableInv'
<1> DEFINE next     == next_block_number_to_ingest_from
           ingested == AlreadyIngestedEvents(filters)
           added    == AddedEvents(ingested, logs)
           removed  == RemovedEvents(ingested, logs)
<1>1. /\ TypeOK /\ FiltersOfChain /\ AnswersAreVersions /\ FeedInv /\ TableInv
      /\ ConfirmsBehindCursor
  BY DEF MirrorInv, FeedInv, AtomicityInv
<1>2. /\ UNCHANGED <<next_block_number_to_ingest_from, served, pruned_below>>
      /\ pending = {} /\ pc = "confirm" /\ logs \subseteq Logs
      /\ \/ added \cup removed = {} /\ events' = events /\ stored_early' = stored_early
         \/ /\ events' = WithCreated(WithDeleted(events, removed), added)
            /\ stored_early' = stored_early \cup {l \in added : l.block_number > current_block_number}
  BY <1>1 DEF HandleChainReorg, provider, TypeOK
<1>3. ASSUME NEW f \in filters
      PROVE  /\ f.row \in ConfiguredRows /\ f.row \in ContractAddresses
             /\ f.from \in Nat /\ f.to \in Nat /\ next[f.row] \in Nat
  BY <1>1, RowTypes DEF TypeOK, Filters, FiltersOfChain, ConfiguredRows
<1>4. ASSUME NEW l \in added
      PROVE  /\ l \in Logs /\ events[l] = 0 /\ l \in logs /\ l \notin removed
             /\ \E f \in filters : BelongsTo(l, f.row) /\ IsInRange(l, f)
  <2>1. l \in logs /\ l \in Logs /\ l \notin ingested
    BY <1>2 DEF AddedEvents, IsSameEvent
  <2>2. PICK f \in filters : FilterMatches(l, f)
    BY <1>1, <2>1 DEF AnswersAreVersions
  <2>3. ~ (events[l] > 0) /\ events[l] \in Nat
    BY <1>1, <2>1, <2>2 DEF AlreadyIngestedEvents, GetEvents, FilterMatches, TypeOK
  <2>4. l \notin removed
    BY <2>1 DEF RemovedEvents
  <2> QED BY <2>1, <2>2, <2>3, <2>4 DEF FilterMatches, BelongsTo
<1>5. ASSUME NEW l \in Logs
      PROVE  /\ l \in added => events'[l] = 1 \/ events'[l] = 0
             /\ l \notin added => events'[l] = 0 \/ events'[l] = events[l]
             /\ l \notin added /\ l \notin removed => events'[l] = events[l]
  <2> HIDE DEF added, removed, ingested
  <2>1. CASE added \cup removed = {} /\ events' = events
    BY <2>1
  <2>2. CASE events' = WithCreated(WithDeleted(events, removed), added)
    BY <1>4, <2>2 DEF WithCreated, WithDeleted
  <2> QED BY <1>2, <2>1, <2>2
<1>6. /\ \A r, b : IsEarly(r, b) => IsEarly(r, b)'
      /\ \A r : \A l \in added : BelongsTo(l, r) /\ l.block_number > current_block_number =>
            IsEarly(r, l.block_number)'
  <2> HIDE DEF added, removed, ingested
  <2> QED BY <1>2 DEF IsEarly
<1>7. StoredOnce' /\ StoredAheadIsEarly'
  <2>1. ASSUME NEW r \in ConfiguredRows, NEW l \in Logs, BelongsTo(l, r), events'[l] > 0
        PROVE  l.block_number < next[r] \/ IsEarly(r, l.block_number)'
    <3>1. CASE l \in added
      <4>1. PICK f \in filters : BelongsTo(l, f.row) /\ IsInRange(l, f)
        BY <1>4, <3>1
      <4>2. r \in ContractAddresses
        BY DEF ConfiguredRows
      <4>3. f.row = r
        BY <1>3, <2>1, <4>1, <4>2, OneRowPerLog
      <4>4. l.block_number <= f.to
        BY <4>1 DEF IsInRange
      <4>5. /\ f.to \in Nat /\ next[r] \in Nat /\ l.block_number \in Nat
            /\ current_block_number \in Nat
        BY <1>1, <1>3, <4>3, LogsAssumption, BoundsAssumption DEF TypeOK, BlockNumbers
      <4>6. \/ f.to < next[r] \/ current_block_number < next[r]
            \/ Smaller(f.to, current_block_number) = next[r] /\ StoredAt(r, next[r]) # {}
        BY <1>1, <1>2, <4>3 DEF ConfirmsBehindCursor
      <4>7. CASE l.block_number > current_block_number
        BY <1>6, <2>1, <3>1, <4>7
      <4>8. CASE f.to < next[r] \/ current_block_number < next[r]
        <5> HIDE DEF next
        <5>1. l.block_number < next[r] \/ l.block_number > current_block_number
          BY <4>4, <4>5, <4>8
        <5> QED BY <4>7, <5>1
      <4>9. CASE /\ Smaller(f.to, current_block_number) = next[r] /\ StoredAt(r, next[r]) # {}
                 /\ l.block_number <= current_block_number
        <5>1. PICK m \in Logs : BelongsTo(m, r) /\ m.block_number = next[r] /\ events[m] > 0
          BY <4>9 DEF StoredAt
        <5>2. next[r] < next[r] \/ IsEarly(r, next[r])
          BY <1>1, <5>1 DEF TableInv, StoredAheadIsEarly
        <5>3. l.block_number < next[r] \/ l.block_number = next[r]
          <6> HIDE DEF next
          <6> QED BY <4>4, <4>5, <4>9 DEF Smaller
        <5>4. IsEarly(r, next[r])
          <6> HIDE DEF next
          <6> QED BY <4>5, <5>2
        <5> QED BY <1>6, <5>3, <5>4
      <4> HIDE DEF next
      <4> QED BY <4>5, <4>6, <4>7, <4>8, <4>9
    <3>2. CASE l \notin added
      <4>1. events[l] > 0
        BY <1>5, <2>1, <3>2
      <4> QED BY <1>1, <1>6, <2>1, <4>1 DEF TableInv, StoredAheadIsEarly
    <3> QED BY <3>1, <3>2
  <2>2. StoredOnce'
    <3> HIDE DEF added, removed, ingested
    <3> QED BY <1>1, <1>5, <1>6 DEF TableInv, StoredOnce
  <2> QED BY <1>2, <2>1, <2>2 DEF StoredAheadIsEarly
<1>8. ASSUME NEW r \in ConfiguredRows, NEW b \in BlockNumbers, b \in IngestedBlocks(r),
             ~ IsEarly(r, b)
      PROVE  IsMirrored(r, b)'
  <2>1. /\ r \in ContractAddresses /\ b \in Nat /\ next[r] \in Nat /\ b < next[r]
        /\ IsMirrored(r, b)
    BY <1>1, <1>8, RowTypes, BoundsAssumption
       DEF ConfiguredRows, IngestedBlocks, TableInv, Mirrored, BlockNumbers
  <2>2. ASSUME NEW f \in filters, f.row = r, f.from <= b, b <= f.to
        PROVE  IsMirrored(r, b)'
    <3>1. PICK h \in ServedAt(r.chain_id, b) : LogsAt(r, b) = SubscribedLogs(r, h)
      BY <1>1, <1>2, <2>1, <2>2 DEF AnswersAreVersions
    <3>2. ASSUME NEW l \in Logs, BelongsTo(l, r), l.block_number = b
          PROVE  events'[l] > 0 <=> l \in logs
      <4>1. IsInRange(l, f)
        BY <2>2, <3>2 DEF IsInRange
      <4> QED BY <1>1, <2>2, <3>2, <4>1, RepairMirrorsAnswer DEF FeedInv
    <3>3. StoredAt(r, b)' = LogsAt(r, b)
      BY <1>2, <3>2 DEF StoredAt, LogsAt
    <3>4. h \in ServedAt(r.chain_id, b)'
      BY <1>2 DEF ServedAt
    <3> QED BY <3>1, <3>3, <3>4 DEF IsMirrored
  <2>3. ASSUME \A f \in filters : ~ (f.row = r /\ f.from <= b /\ b <= f.to)
        PROVE  IsMirrored(r, b)'
    <3>1. ASSUME NEW l \in Logs, BelongsTo(l, r), l.block_number = b
          PROVE  l \notin added /\ l \notin removed
      <4>1. SUFFICES ASSUME l \in added \cup removed PROVE FALSE
        OBVIOUS
      <4>2. PICK f \in filters : BelongsTo(l, f.row) /\ IsInRange(l, f)
        BY <1>1, <4>1, ChangesInRange
      <4>3. f.row = r
        BY <1>3, <2>1, <3>1, <4>2, OneRowPerLog
      <4> QED BY <2>3, <3>1, <4>2, <4>3 DEF IsInRange
    <3>2. \A l \in Logs : BelongsTo(l, r) /\ l.block_number = b => events'[l] = events[l]
      <4> HIDE DEF added, removed, ingested
      <4> QED BY <1>5, <3>1
    <3> QED BY <1>2, <2>1, <3>2, MirroredBlockKept
  <2> QED BY <2>2, <2>3
<1>9. Mirrored'
  BY <1>2, <1>6, <1>8 DEF Mirrored, IngestedBlocks
<1> QED BY <1>7, <1>9 DEF TableInv

\* Pruning deletes nothing of the blocks it leaves.
LEMMA PruneKeepsTable ==
    ASSUME TypeOK, TableInv, FinishPass
    PROVE  TableInv'
<1> DEFINE below == GetMinBlockNumber(current_block_number)
<1>1. /\ UNCHANGED <<next_block_number_to_ingest_from, served, stored_early>>
      /\ \A r, b : IsEarly(r, b)' = IsEarly(r, b)
  BY DEF FinishPass, provider, IsEarly
<1>2. \/ UNCHANGED <<events, pruned_below>>
      \/ /\ events' = WithPruned(events, below, chain)
         /\ pruned_below' = [pruned_below EXCEPT ![chain] = Larger(@, below)]
  BY DEF FinishPass
<1>3. CASE UNCHANGED <<events, pruned_below>>
  BY <1>1, <1>3, TableKept
<1>4. CASE /\ events' = WithPruned(events, below, chain)
           /\ pruned_below' = [pruned_below EXCEPT ![chain] = Larger(@, below)]
  <2>1. below \in Int
    BY BoundsAssumption DEF GetMinBlockNumber, TypeOK
  <2> HIDE DEF below
  <2>2. \A l \in Logs : events'[l] = IF l.block_number < below /\ l.chain_id = chain
                                     THEN 0 ELSE events[l]
    BY <1>4 DEF WithPruned
  <2>3. StoredAheadIsEarly' /\ StoredOnce'
    BY <1>1, <2>2 DEF TableInv, StoredAheadIsEarly, StoredOnce
  <2>4. ASSUME NEW r \in ConfiguredRows, NEW b \in BlockNumbers, b \in IngestedBlocks(r)',
               ~ IsEarly(r, b)
        PROVE  IsMirrored(r, b)'
    <3>1. /\ r.chain_id \in ChainIds /\ b \in Nat
          /\ pruned_below[r.chain_id] \in Nat
      <4>1. r.chain_id \in ChainIds
        BY RowTypes DEF ConfiguredRows
      <4> QED BY <4>1, BoundsAssumption DEF BlockNumbers, TypeOK
    <3>2. /\ r.start_block_number <= b /\ b < next_block_number_to_ingest_from[r]
          /\ b >= pruned_below'[r.chain_id]
      BY <1>1, <2>4 DEF IngestedBlocks
    <3>3. /\ b >= pruned_below[r.chain_id]
          /\ r.chain_id = chain => b >= below
      BY <1>4, <2>1, <3>1, <3>2 DEF Larger, TypeOK
    <3>4. IsMirrored(r, b)
      BY <2>4, <3>2, <3>3 DEF TableInv, Mirrored, IngestedBlocks
    <3>5. \A l \in Logs : BelongsTo(l, r) /\ l.block_number = b => events'[l] = events[l]
      BY <2>1, <2>2, <3>1, <3>3 DEF BelongsTo
    <3> QED BY <1>1, <3>4, <3>5, MirroredBlockKept
  <2>5. Mirrored'
    BY <1>1, <2>4 DEF Mirrored, IngestedBlocks
  <2> QED BY <2>3, <2>5 DEF TableInv
<1> QED BY <1>2, <1>3, <1>4

\* What is answered has been served, and only answers are stored.
LEMMA StoredWereServedStep ==
    ASSUME FeedInv, StoredWereServed, [Next]_vars
    PROVE  StoredWereServed'
<1>1. TypeOK /\ FiltersOfChain /\ AnswersAreVersions
  BY DEF FeedInv, AtomicityInv
<1>2. served \subseteq served'
  <2>1. \A c \in ChainIds : MineBlock(c) \/ Reorg(c) => served \subseteq served'
    BY <1>1, EnvironmentSteps
  <2>2. ASSUME NEW r \in ContractAddresses, IncludeContract(r)  PROVE served \subseteq served'
    BY <2>2 DEF IncludeContract, provider
  <2>3. ASSUME NEW f \in pending, FetchLogs(f)  PROVE served \subseteq served'
    BY <2>3 DEF FetchLogs, provider
  <2>4. CASE Crash \/ FetchCurrentBlockNumber \/ OpenStream \/ StreamChunk \/ IngestEvents
             \/ HandleChainReorg \/ FinishPass \/ UNCHANGED vars
    BY <2>4 DEF Crash, FetchCurrentBlockNumber, OpenStream, StreamChunk, IngestEvents,
                HandleChainReorg, FinishPass, vars, provider
  <2> QED BY <2>1, <2>2, <2>3, <2>4 DEF Next, Ingest
<1> SUFFICES ASSUME NEW l \in Logs, events'[l] > 0
             PROVE  WasServed(l)'
  BY DEF StoredWereServed
<1>3. WasServed(l) => WasServed(l)'
  BY <1>2 DEF WasServed, ServedAt
<1>4. CASE events[l] > 0
  BY <1>3, <1>4 DEF StoredWereServed
<1>5. CASE l \in logs
  <2>1. PICK f \in filters \ pending : FilterMatches(l, f)
    BY <1>1, <1>5 DEF AnswersAreVersions
  <2>2. f.row \in ConfiguredRows /\ f.row.chain_id = l.chain_id
    BY <1>1, <2>1 DEF TypeOK, Filters, FiltersOfChain, ConfiguredRows, FilterMatches
  <2>3. l.block_number \in BlockNumbers /\ f.from <= l.block_number /\ l.block_number <= f.to
    BY <2>1, LogsAssumption DEF FilterMatches, IsInRange
  <2>4. l \in LogsAt(f.row, l.block_number)
    BY <1>5, <2>1 DEF LogsAt, FilterMatches, BelongsTo
  <2>5. PICK h \in ServedAt(l.chain_id, l.block_number) :
          LogsAt(f.row, l.block_number) = SubscribedLogs(f.row, h)
    BY <1>1, <2>2, <2>3, <2>4 DEF AnswersAreVersions
  <2>6. l \in SubscribedLogs(f.row, h) /\ l.block_hash = h
    BY <2>4, <2>5 DEF SubscribedLogs
  <2>7. WasServed(l)
    BY <2>2, <2>5, <2>6 DEF WasServed
  <2> QED BY <1>3, <2>7
<1>6. CASE IngestEvents
  BY <1>4, <1>5, <1>6 DEF IngestEvents, WithCreated
<1>7. CASE HandleChainReorg
  <2> DEFINE ingested == AlreadyIngestedEvents(filters)
             added    == AddedEvents(ingested, logs)
             removed  == RemovedEvents(ingested, logs)
  <2>1. added \subseteq logs
    BY DEF AddedEvents
  <2>2. events' = events \/ events' = WithCreated(WithDeleted(events, removed), added)
    BY <1>7 DEF HandleChainReorg
  <2> HIDE DEF added, removed
  <2> QED BY <1>4, <1>5, <2>1, <2>2 DEF WithCreated, WithDeleted
<1>8. CASE FinishPass
  <2>1. events' = events \/ events' = WithPruned(events, GetMinBlockNumber(current_block_number), chain)
    BY <1>8 DEF FinishPass
  <2> QED BY <1>4, <2>1 DEF WithPruned
<1>9. CASE events' = events
  BY <1>4, <1>9
<1>10. ASSUME NEW c \in ChainIds, MineBlock(c) \/ Reorg(c)  PROVE events' = events
  BY <1>1, <1>10, EnvironmentSteps DEF database
<1>11. ASSUME NEW r \in ContractAddresses, IncludeContract(r)  PROVE events' = events
  BY <1>11 DEF IncludeContract
<1>12. ASSUME NEW f \in pending, FetchLogs(f)  PROVE events' = events
  BY <1>12 DEF FetchLogs, database
<1>13. Crash \/ FetchCurrentBlockNumber \/ OpenStream \/ StreamChunk \/ UNCHANGED vars
       => events' = events
  BY DEF Crash, FetchCurrentBlockNumber, OpenStream, StreamChunk, vars, database
<1> QED BY <1>6, <1>7, <1>8, <1>9, <1>10, <1>11, <1>12, <1>13 DEF Next, Ingest

LEMMA MirrorStep ==
    ASSUME AddressesNotShared, MirrorInv, [Next]_vars, FeedInv'
    PROVE  MirrorInv'
<1>1. FeedInv /\ TypeOK /\ TableInv /\ StoredWereServed
  BY DEF MirrorInv, FeedInv, AtomicityInv
<1>2. NoRowLeftOut' /\ ConfirmsBehindCursor' /\ StoredWereServed'
  BY <1>1, NoRowLeftOutStep, ConfirmsBehindCursorStep, StoredWereServedStep DEF MirrorInv
<1>3. TableInv'
  <2>1. ASSUME NEW c \in ChainIds, MineBlock(c) \/ Reorg(c)  PROVE TableInv'
    BY <1>1, <2>1, EnvironmentSteps, TableKept DEF database
  <2>2. ASSUME NEW r \in ContractAddresses, IncludeContract(r)  PROVE TableInv'
    BY <1>1, <2>2, TableKept DEF IncludeContract, provider
  <2>3. CASE Crash \/ FetchCurrentBlockNumber \/ OpenStream \/ StreamChunk
             \/ \E f \in pending : FetchLogs(f)
    BY <1>1, <2>3, TableKept
       DEF Crash, FetchCurrentBlockNumber, OpenStream, StreamChunk, FetchLogs, provider, database
  <2>4. CASE UNCHANGED vars
    BY <1>1, <2>4, TableKept DEF vars, provider, database
  <2>5. CASE IngestEvents
    BY <1>1, <2>5, IngestKeepsTable
  <2>6. CASE HandleChainReorg
    BY <2>6, RepairKeepsTable
  <2>7. CASE FinishPass
    BY <1>1, <2>7, PruneKeepsTable
  <2> QED BY <2>1, <2>2, <2>3, <2>4, <2>5, <2>6, <2>7 DEF Next, Ingest
<1> QED BY <1>2, <1>3 DEF MirrorInv

LEMMA MirrorInvariant ==
    ASSUME AddressesNotShared
    PROVE  Spec => []MirrorInv
<1>1. Init => MirrorInv
  <2> SUFFICES ASSUME Init PROVE MirrorInv
    OBVIOUS
  <2>1. FeedInv
    BY InitFeedInv
  <2>2. NoRowLeftOut /\ ConfirmsBehindCursor
    BY DEF Init, NoRowLeftOut, ConfirmsBehindCursor
  <2>3. StoredAheadIsEarly /\ StoredOnce /\ StoredWereServed
    BY DEF Init, StoredAheadIsEarly, StoredOnce, StoredWereServed
  <2>4. ASSUME NEW r \in ConfiguredRows, NEW b \in IngestedBlocks(r)  PROVE FALSE
    <3>1. /\ r.start_block_number \in Nat /\ b \in Nat
          /\ next_block_number_to_ingest_from[r] = r.start_block_number
      BY ContractAddressesAssumption, BoundsAssumption
         DEF Init, ConfiguredRows, IngestedBlocks, BlockNumbers
    <3> QED BY <3>1 DEF IngestedBlocks
  <2> QED BY <2>1, <2>2, <2>3, <2>4 DEF MirrorInv, TableInv, Mirrored
<1>2. MirrorInv /\ FeedInv' /\ [Next]_vars => MirrorInv'
  BY MirrorStep
<1> QED BY <1>1, <1>2, FeedInvariant, PTL DEF Spec

\* Behind a cursor each block is stored as one of the versions it has had, whole and
\* once, with nothing else beside it, unless a repair stored it ahead of the cursor:
\* whenever blocks are mined, however chains re-organize, and wherever the process
\* dies.
THEOREM TableMirrorsChain ==
    ASSUME AddressesNotShared
    PROVE  Spec => []MirrorsServedBlock
<1>1. MirrorInv => MirrorsServedBlock
  <2> SUFFICES ASSUME MirrorInv, NEW r \in IngestedRows, NEW b \in IngestedBlocks(r),
                      ~ IsEarly(r, b)
               PROVE  /\ \E h \in ServedAt(r.chain_id, b) : StoredAt(r, b) = SubscribedLogs(r, h)
                      /\ \A l \in StoredAt(r, b) : events[l] = 1
    BY DEF MirrorsServedBlock
  <2>1. r \in ConfiguredRows
    BY DEF MirrorInv, FeedInv, AtomicityInv, TypeOK, IngestedRows, ConfiguredRows
  <2>2. ASSUME NEW l \in StoredAt(r, b)  PROVE events[l] = 1
    <3>1. l \in Logs /\ events[l] > 0 /\ BelongsTo(l, r) /\ l.block_number = b
      BY DEF StoredAt
    <3>2. events[l] \in Nat /\ events[l] <= 1
      BY <2>1, <3>1 DEF MirrorInv, FeedInv, AtomicityInv, TypeOK, TableInv, StoredOnce
    <3> QED BY <3>1, <3>2
  <2> QED BY <2>1, <2>2 DEF MirrorInv, TableInv, Mirrored, IsMirrored
<1> QED BY <1>1, MirrorInvariant, PTL

-----------------------------------------------------------------------------
(* The rows of chaindexing_reorged_blocks *)

\* A repair never looks at blocks whose events have been pruned: it would find
\* them missing, and take the answer for a re-organization.
RepairsUnpruned == pc = "confirm" => \A f \in filters : pruned_below[chain] <= f.from

\* A block a repair changes has been mined since the pass began, or has had two
\* versions: behind the cursor, and at the cursor too where something is stored, one
\* version is stored whole, and another one was answered.
LEMMA ChangedBlocksAreReal ==
    ASSUME AddressesNotShared, MirrorInv, CursorCoverage, RepairsUnpruned, pc = "confirm", pending = {},
           NEW l,
           LET ingested == AlreadyIngestedEvents(filters)
           IN  l \in AddedEvents(ingested, logs) \cup RemovedEvents(ingested, logs)
    PROVE  \/ l.block_number > current_block_number
           \/ \E g, h \in ServedAt(chain, l.block_number) : g # h
<1> DEFINE ingested == AlreadyIngestedEvents(filters)
           b        == l.block_number
<1>1. /\ TypeOK /\ FiltersOfChain /\ FilterRanges /\ OnePerRow /\ AnswersAreVersions
      /\ BlockAtomic /\ ConfirmsBehindCursor /\ StoredWereServed /\ FeedInv
  BY DEF MirrorInv, FeedInv, AtomicityInv
<1> SUFFICES ASSUME ~ (b > current_block_number)
             PROVE  \E g, h \in ServedAt(chain, b) : g # h
  OBVIOUS
<1>2. PICK f \in filters : BelongsTo(l, f.row) /\ IsInRange(l, f)
  BY <1>1, ChangesInRange
<1> DEFINE r == f.row
           next == next_block_number_to_ingest_from[r]
<1>3. /\ r \in ConfiguredRows /\ r \in ContractAddresses /\ r.chain_id = chain
      /\ r \in IngestedRows /\ chain \in ChainIds /\ f.from \in Nat /\ f.to \in Nat
      /\ r.start_block_number <= f.from /\ pruned_below[chain] <= f.from
  BY <1>1, ChainFacts DEF TypeOK, Filters, FiltersOfChain, FilterRanges, ConfiguredRows,
                          RepairsUnpruned, OnePerRow, IngestedRows
<1>4. /\ r.start_block_number \in Nat /\ pruned_below[chain] \in Nat
      /\ next \in Nat /\ current_block_number \in Nat
  BY <1>1, <1>3, ContractAddressesAssumption DEF TypeOK
<1>5. /\ l \in Logs
      /\ \/ l \in logs /\ ~ (events[l] > 0)
         \/ l \notin logs /\ events[l] > 0
  <2>1. l \in logs => l \in Logs
    BY <1>1 DEF TypeOK
  <2>2. l \in ingested => l \in Logs /\ events[l] > 0
    BY DEF AlreadyIngestedEvents, GetEvents
  <2>3. l \in Logs /\ events[l] > 0 => l \in ingested
    BY <1>2 DEF AlreadyIngestedEvents, GetEvents, BelongsTo
  <2>4. \/ l \in logs /\ l \notin ingested
        \/ l \in ingested /\ l \notin logs
    BY DEF AddedEvents, RemovedEvents, IsSameEvent
  <2> QED BY <2>1, <2>2, <2>3, <2>4
<1>6. /\ b \in BlockNumbers /\ b \in Nat /\ f.from <= b /\ b <= f.to
      /\ BelongsTo(l, r)
  BY <1>2, <1>5, LogsAssumption, BoundsAssumption DEF BlockNumbers, IsInRange
<1>7. PICK h \in ServedAt(chain, b) : LogsAt(r, b) = SubscribedLogs(r, h)
  <2>1. \/ \E h \in ServedAt(r.chain_id, b) : LogsAt(r, b) = SubscribedLogs(r, h)
        \/ b > current_block_number
    BY <1>1, <1>6 DEF AnswersAreVersions
  <2> QED BY <1>3, <2>1
<1>8. ASSUME NEW m \in Logs, BelongsTo(m, r), m.block_number = b, events[m] > 0
      PROVE  m \in SubscribedLogs(r, m.block_hash) /\ m.block_hash \in ServedAt(chain, b)
  <2>1. PICK s \in ConfiguredRows : /\ m \in SubscribedLogs(s, m.block_hash)
                                    /\ m.block_hash \in ServedAt(m.chain_id, m.block_number)
    BY <1>1, <1>8 DEF StoredWereServed, WasServed
  <2>2. BelongsTo(m, s) /\ s \in ContractAddresses
    BY <2>1 DEF SubscribedLogs, ConfiguredRows
  <2>3. s = r
    BY <1>3, <1>8, <2>2, OneRowPerLog
  <2>4. m.chain_id = chain
    BY <1>3, <1>8 DEF BelongsTo
  <2> HIDE DEF r, b
  <2> QED BY <1>8, <2>1, <2>3, <2>4
\* A stored event that was not answered: its block was served, and another answered.
<1>9. CASE l \notin logs /\ events[l] > 0
  <2>1. l \in SubscribedLogs(r, l.block_hash) /\ l.block_hash \in ServedAt(chain, b)
    BY <1>5, <1>6, <1>8, <1>9
  <2>2. l \notin LogsAt(r, b)
    BY <1>9 DEF LogsAt
  <2>3. l.block_hash # h
    BY <1>7, <2>1, <2>2
  <2> QED BY <1>7, <2>1, <2>3
\* An answered event that is not stored: some version is, and not the one answered.
<1>10. CASE l \in logs /\ ~ (events[l] > 0)
  <2>1. l \in SubscribedLogs(r, h) /\ l.block_hash = h
    <3>1. l \in LogsAt(r, b)
      BY <1>5, <1>6, <1>10 DEF LogsAt
    <3> QED BY <1>7, <3>1 DEF SubscribedLogs
  <2>2. CASE b < next
    <3>1. b \in IngestedBlocks(r)
      BY <1>3, <1>4, <1>6, <2>2 DEF IngestedBlocks
    <3>2. PICK g \in ServedAt(chain, b) : SubscribedLogs(r, g) \subseteq StoredAt(r, b)
      BY <1>3, <3>1 DEF CursorCoverage
    <3>3. l \notin StoredAt(r, b)
      BY <1>10 DEF StoredAt
    <3>4. g # h
      BY <2>1, <3>2, <3>3
    <3> QED BY <1>7, <3>2, <3>4
  <2>3. CASE ~ (b < next)
    <3>1. /\ Smaller(f.to, current_block_number) = next
          /\ StoredAt(r, next) # {}
      <4>1. \/ f.to < next
            \/ current_block_number < next
            \/ Smaller(f.to, current_block_number) = next /\ StoredAt(r, next) # {}
        BY <1>1 DEF ConfirmsBehindCursor
      <4> HIDE DEF next, b
      <4> QED BY <1>3, <1>4, <1>6, <2>3, <4>1
    <3>2. b = next
      <4> HIDE DEF next, b
      <4> QED BY <1>3, <1>4, <1>6, <2>3, <3>1 DEF Smaller
    <3>3. PICK m \in Logs : BelongsTo(m, r) /\ m.block_number = b /\ events[m] > 0
      BY <3>1, <3>2 DEF StoredAt
    <3>4. m \in SubscribedLogs(r, m.block_hash) /\ m.block_hash \in ServedAt(chain, b)
      BY <1>8, <3>3
    <3>5. m.block_hash # l.block_hash
      <4>1. SUFFICES ASSUME m.block_hash = l.block_hash PROVE FALSE
        OBVIOUS
      <4>2. {l.abi, m.abi} \subseteq GetEventAbis(r.contract_name)
        BY <2>1, <3>4 DEF SubscribedLogs
      <4>3. r.contract_name \in ContractNames
        BY <1>3 DEF ConfiguredRows
      <4>4. events[l] = events[m]
        BY <1>1, <1>3, <1>5, <1>6, <3>3, <4>1, <4>2, <4>3 DEF BlockAtomic
      <4> QED BY <1>10, <3>3, <4>4
    <3> QED BY <1>7, <2>1, <3>4, <3>5
  <2> QED BY <2>2, <2>3
<1> QED BY <1>5, <1>9, <1>10

\* A block the handlers are made to go back to has been mined since the pass began or
\* has had two versions on its chain, as long as no repair looks below what was pruned.
THEOREM ReorgsWereServed ==
    ASSUME AddressesNotShared
    PROVE  Spec /\ []RepairsUnpruned => ReorgRowsAreReal
<1> DEFINE A == \A i \in DOMAIN reorged_blocks' \ DOMAIN reorged_blocks :
          LET row == reorged_blocks'[i] IN
          \/ row.block_number > current_block_number
          \/ \E g, h \in ServedAt(row.chain_id, row.block_number) : g # h
<1>1. ASSUME MirrorInv, CursorCoverage, RepairsUnpruned, [Next]_vars
      PROVE  [A]_vars
  <2>1. TypeOK
    BY <1>1 DEF MirrorInv, FeedInv, AtomicityInv
  <2>2. CASE UNCHANGED reorged_blocks
    BY <2>2
  <2>3. CASE HandleChainReorg
    <3> DEFINE ingested == AlreadyIngestedEvents(filters)
               changed  == AddedEvents(ingested, logs) \cup RemovedEvents(ingested, logs)
               row      == [chain_id |-> chain, block_number |-> EarliestBlockNumber(changed)]
    <3>1. /\ pc = "confirm" /\ pending = {}
          /\ \/ changed = {} /\ UNCHANGED reorged_blocks
             \/ changed # {} /\ reorged_blocks' = Append(reorged_blocks, row)
      BY <2>3 DEF HandleChainReorg
    <3>2. CASE changed # {} /\ reorged_blocks' = Append(reorged_blocks, row)
      <4>1. changed \subseteq Logs
        BY <2>1 DEF AddedEvents, RemovedEvents, AlreadyIngestedEvents, GetEvents, TypeOK
      <4>2. PICK l \in changed : l.block_number = EarliestBlockNumber(changed)
        <5> HIDE DEF changed
        <5> QED BY <3>2, <4>1, EarliestBlockNumberIsLeast
      <4>3. \/ l.block_number > current_block_number
            \/ \E g, h \in ServedAt(chain, l.block_number) : g # h
        BY <1>1, <3>1, ChangedBlocksAreReal
      <4>4. \/ row.block_number > current_block_number
            \/ \E g, h \in ServedAt(row.chain_id, row.block_number) : g # h
        <5> HIDE DEF changed
        <5> QED BY <4>2, <4>3
      <4>5. reorged_blocks \in Seq([chain_id : ChainIds, block_number : BlockNumbers])
        BY <2>1 DEF TypeOK
      <4> HIDE DEF row
      <4>6. \A i \in DOMAIN reorged_blocks' \ DOMAIN reorged_blocks : reorged_blocks'[i] = row
        BY <3>2, <4>5
      <4> QED BY <4>4, <4>6
    <3> QED BY <2>2, <3>1, <3>2
  <2>4. ASSUME NEW c \in ChainIds, MineBlock(c) \/ Reorg(c)  PROVE A
    BY <2>1, <2>2, <2>4, EnvironmentSteps DEF database
  <2>5. ASSUME NEW r \in ContractAddresses, IncludeContract(r)  PROVE A
    BY <2>2, <2>5 DEF IncludeContract
  <2>6. ASSUME NEW f \in pending, FetchLogs(f)  PROVE A
    BY <2>2, <2>6 DEF FetchLogs, database
  <2>7. CASE Crash \/ FetchCurrentBlockNumber \/ OpenStream \/ StreamChunk \/ IngestEvents
             \/ FinishPass \/ UNCHANGED vars
    BY <2>2, <2>7 DEF Crash, FetchCurrentBlockNumber, OpenStream, StreamChunk, IngestEvents,
                      FinishPass, vars, database
  <2> QED BY <1>1, <2>3, <2>4, <2>5, <2>6, <2>7 DEF Next, Ingest
<1> HIDE DEF A
<1>2. Spec /\ []RepairsUnpruned => [][A]_vars
  BY <1>1, MirrorInvariant, NoBlockForgotten, PTL DEF Spec
<1> QED BY <1>2 DEF ReorgRowsAreReal, A

-----------------------------------------------------------------------------
(* Pruning and repairs, from the configuration *)

\* A chain is longer than the part of it pruning keeps: shorter ones would be
\* pruned up to their latest block (PruningConfig::get_min_block_number).
ChainsOutgrowPruning == PruningEnabled => PruneNBlocksAway <= InitialBlockNumber

\* A confirmation goes back twice the confirmation count at most.
PruningSparesRepairs == PruningEnabled => 2 * MinConfirmationCount <= PruneNBlocksAway

\* No chain is ever shorter than it was.
HeightsKept ==
    /\ \A c \in ChainIds : InitialBlockNumber <= height[c]
    /\ pc # "start" => InitialBlockNumber <= current_block_number

\* What is pruned lies behind the chain and, a pass being finished only later,
\* behind the block number the running pass began with.
PrunedBehind ==
    /\ \A c \in ChainIds : \/ pruned_below[c] = 0
                           \/ PruningEnabled /\ pruned_below[c] + PruneNBlocksAway <= height[c]
    /\ pc # "start" =>
          \/ pruned_below[chain] = 0
          \/ PruningEnabled /\ pruned_below[chain] + PruneNBlocksAway <= current_block_number

ConfirmsRecent ==
    pc = "confirm" => \A f \in filters : current_block_number <= f.from + 2 * MinConfirmationCount

LEMMA HeightsKeptStep ==
    ASSUME TypeOK, HeightsKept, [Next]_vars
    PROVE  HeightsKept'
<1>1. chain \in ChainIds /\ InitialBlockNumber \in Nat /\ BlockNumbers \subseteq Nat
  BY ChainFacts, BoundsAssumption DEF TypeOK, BlockNumbers
<1>2. CASE UNCHANGED <<pc, height, current_block_number>>
  BY <1>2 DEF HeightsKept
<1>3. ASSUME NEW c \in ChainIds, MineBlock(c)
      PROVE  HeightsKept'
  <2>1. height' = [height EXCEPT ![c] = @ + 1] /\ UNCHANGED <<pc, current_block_number>>
    BY <1>3 DEF MineBlock, locals
  <2>2. height \in [ChainIds -> Nat]
    BY <1>1 DEF TypeOK
  <2>3. \A d \in ChainIds : height[d] <= height'[d]
    BY <2>1, <2>2
  <2>4. \A d \in ChainIds : InitialBlockNumber <= height[d]
    BY DEF HeightsKept
  <2>5. \A d \in ChainIds : height'[d] \in Nat
    BY <2>1, <2>2
  <2>6. \A d \in ChainIds : InitialBlockNumber <= height'[d]
    BY <1>1, <2>2, <2>3, <2>4, <2>5
  <2> QED BY <2>1, <2>6 DEF HeightsKept
<1>4. ASSUME NEW c \in ChainIds, Reorg(c)  PROVE HeightsKept'
  BY <1>2, <1>4 DEF Reorg, locals
<1>5. ASSUME NEW r \in ContractAddresses, IncludeContract(r)  PROVE HeightsKept'
  BY <1>2, <1>5 DEF IncludeContract, provider, locals
<1>6. CASE Crash \/ FinishPass
  BY <1>6 DEF Crash, FinishPass, provider, HeightsKept
<1>7. CASE FetchCurrentBlockNumber
  BY <1>1, <1>7 DEF FetchCurrentBlockNumber, HeightsKept
<1>8. CASE OpenStream \/ StreamChunk \/ IngestEvents \/ HandleChainReorg
           \/ \E f \in pending : FetchLogs(f)
  <2>1. pc # "start" /\ height' = height /\ current_block_number' = current_block_number
    BY <1>8 DEF OpenStream, StreamChunk, IngestEvents, HandleChainReorg, FetchLogs, provider
  <2> QED BY <2>1 DEF HeightsKept
<1>9. CASE UNCHANGED vars
  BY <1>2, <1>9 DEF vars, provider, locals
<1> QED BY <1>3, <1>4, <1>5, <1>6, <1>7, <1>8, <1>9 DEF Next, Ingest

LEMMA HeightsKeptInvariant == Spec => [](TypeOK /\ HeightsKept)
<1>1. Init => HeightsKept
  BY BoundsAssumption DEF Init, HeightsKept, BlockNumbers
<1>2. TypeOK /\ HeightsKept /\ [Next]_vars => HeightsKept'
  BY HeightsKeptStep
<1> QED BY <1>1, <1>2, TypeCorrect, PTL DEF Spec

LEMMA PrunesOldBlocksOnly ==
    ASSUME ChainsOutgrowPruning, PruningEnabled, TypeOK, HeightsKept, FinishPass
    PROVE  GetMinBlockNumber(current_block_number) = current_block_number - PruneNBlocksAway
<1>1. pc = "stream" /\ current_block_number \in Nat
  BY DEF FinishPass, TypeOK
<1> QED BY <1>1, BoundsAssumption DEF GetMinBlockNumber, ChainsOutgrowPruning, HeightsKept, BlockNumbers

\* What a pass prunes lies more than prune_n_blocks_away blocks behind the block
\* number it began with, on every chain that is longer than that.
THEOREM RecentEventsKept ==
    ASSUME ChainsOutgrowPruning
    PROVE  Spec => PruningRetainsRecent
<1> DEFINE A == \A l \in Logs :
          /\ pc' = "start"
          /\ events[l] > 0 /\ events'[l] = 0
          => l.block_number + PruneNBlocksAway < current_block_number
<1>1. ASSUME TypeOK, HeightsKept, [Next]_vars
      PROVE  [A]_vars
  <2>1. CASE UNCHANGED events
    BY <2>1
  <2>2. CASE FinishPass
    <3> SUFFICES ASSUME NEW l \in Logs, events[l] > 0, events'[l] = 0
                 PROVE  l.block_number + PruneNBlocksAway < current_block_number
      OBVIOUS
    <3> DEFINE below == GetMinBlockNumber(current_block_number)
    <3>1. PruningEnabled /\ events' = WithPruned(events, below, chain)
      BY <2>2 DEF FinishPass
    <3>2. l.block_number < below
      <4> HIDE DEF below
      <4> QED BY <3>1 DEF WithPruned
    <3>3. below = current_block_number - PruneNBlocksAway
      BY <1>1, <2>2, <3>1, PrunesOldBlocksOnly
    <3>4. /\ current_block_number \in Nat /\ PruneNBlocksAway \in Nat /\ l.block_number \in Nat
      BY <1>1, LogsAssumption, BoundsAssumption DEF TypeOK, BlockNumbers
    <3> HIDE DEF below
    <3> QED BY <3>2, <3>3, <3>4
  <2>3. CASE IngestEvents \/ HandleChainReorg
    BY <2>3 DEF IngestEvents, HandleChainReorg
  <2>4. ASSUME NEW c \in ChainIds, MineBlock(c) \/ Reorg(c)  PROVE A
    BY <1>1, <2>1, <2>4, EnvironmentSteps DEF database
  <2>5. ASSUME NEW r \in ContractAddresses, IncludeContract(r)  PROVE A
    BY <2>1, <2>5 DEF IncludeContract
  <2>6. ASSUME NEW f \in pending, FetchLogs(f)  PROVE A
    BY <2>1, <2>6 DEF FetchLogs, database
  <2>7. CASE Crash \/ FetchCurrentBlockNumber \/ OpenStream \/ StreamChunk \/ UNCHANGED vars
    BY <2>1, <2>7 DEF Crash, FetchCurrentBlockNumber, OpenStream, StreamChunk, vars, database
  <2> QED BY <1>1, <2>2, <2>3, <2>4, <2>5, <2>6, <2>7 DEF Next, Ingest
<1> HIDE DEF A
<1>2. Spec => [][A]_vars
  BY <1>1, HeightsKeptInvariant, PTL DEF Spec
<1> QED BY <1>2 DEF PruningRetainsRecent, A

LEMMA PrunedBehindStep ==
    ASSUME ChainsOutgrowPruning, FeedInv, HeightsKept, PrunedBehind, [Next]_vars
    PROVE  PrunedBehind'
<1>1. /\ TypeOK /\ chain \in ChainIds /\ height \in [ChainIds -> Nat]
      /\ pruned_below \in [ChainIds -> Nat] /\ PruneNBlocksAway \in Nat
      /\ current_block_number \in Nat /\ current_block_number <= height[chain]
  <2>1. TypeOK /\ WithinHeight
    BY DEF FeedInv, AtomicityInv
  <2>2. chain \in ChainIds
    BY <2>1, ChainFacts DEF TypeOK
  <2>3. pruned_below \in [ChainIds -> Nat] /\ current_block_number \in Nat
    BY <2>1 DEF TypeOK
  <2>4. height \in [ChainIds -> Nat] /\ PruneNBlocksAway \in Nat
    BY <2>1, BoundsAssumption DEF TypeOK, BlockNumbers
  <2> QED BY <2>1, <2>2, <2>3, <2>4 DEF WithinHeight
<1>2. CASE UNCHANGED <<height, pruned_below, chain_at, current_block_number>> /\ pc # "start"
  BY <1>2 DEF PrunedBehind, chain
<1>3. CASE UNCHANGED <<height, pruned_below>> /\ pc' = "start"
  BY <1>3 DEF PrunedBehind
<1>4. CASE UNCHANGED <<height, pruned_below, pc, chain_at, current_block_number>>
  BY <1>4 DEF PrunedBehind, chain
<1>5. ASSUME NEW c \in ChainIds, MineBlock(c)
      PROVE  PrunedBehind'
  <2>1. /\ height' = [height EXCEPT ![c] = @ + 1] /\ chain' = chain
        /\ UNCHANGED <<pruned_below, pc, current_block_number>>
    BY <1>5 DEF MineBlock, database, locals, chain
  <2>2. \A d \in ChainIds : height[d] <= height'[d] /\ height'[d] \in Nat
    BY <1>1, <2>1
  <2> QED BY <1>1, <2>1, <2>2 DEF PrunedBehind
<1>6. CASE FinishPass
  <2> DEFINE below == GetMinBlockNumber(current_block_number)
  <2>1. /\ height' = height /\ pc = "stream" /\ pc' = "start"
        /\ \/ UNCHANGED pruned_below
           \/ PruningEnabled /\ pruned_below' = [pruned_below EXCEPT ![chain] = Larger(@, below)]
    BY <1>6 DEF FinishPass, provider
  <2>2. CASE PruningEnabled /\ pruned_below' = [pruned_below EXCEPT ![chain] = Larger(@, below)]
    <3>1. below = current_block_number - PruneNBlocksAway
      BY <1>1, <1>6, <2>2, PrunesOldBlocksOnly
    <3> HIDE DEF below
    <3>2. below + PruneNBlocksAway <= height[chain] /\ below \in Int
      BY <1>1, <3>1
    <3>3. \A c \in ChainIds : \/ pruned_below'[c] = pruned_below[c]
                              \/ c = chain /\ pruned_below'[c] = below
      BY <1>1, <2>2 DEF Larger
    <3> QED BY <2>1, <2>2, <3>2, <3>3 DEF PrunedBehind
  <2> QED BY <1>3, <2>1, <2>2
<1>7. CASE FetchCurrentBlockNumber
  <2>1. /\ current_block_number' = height[chain] /\ chain' = chain
        /\ UNCHANGED <<height, pruned_below>>
    BY <1>7 DEF FetchCurrentBlockNumber, database, chain
  <2> QED BY <1>1, <2>1 DEF PrunedBehind
<1>8. ASSUME NEW c \in ChainIds, Reorg(c)  PROVE PrunedBehind'
  BY <1>4, <1>8 DEF Reorg, database, locals
<1>9. ASSUME NEW r \in ContractAddresses, IncludeContract(r)  PROVE PrunedBehind'
  BY <1>4, <1>9 DEF IncludeContract, provider, locals
<1>10. ASSUME NEW f \in pending, FetchLogs(f)  PROVE PrunedBehind'
  BY <1>4, <1>10 DEF FetchLogs, provider, database
<1>11. CASE OpenStream \/ StreamChunk \/ IngestEvents \/ HandleChainReorg
  BY <1>2, <1>11 DEF OpenStream, StreamChunk, IngestEvents, HandleChainReorg, provider, database
<1>12. CASE Crash
  BY <1>3, <1>12 DEF Crash, provider, database
<1>13. CASE UNCHANGED vars
  BY <1>4, <1>13 DEF vars, provider, database, locals
<1> QED BY <1>5, <1>6, <1>7, <1>8, <1>9, <1>10, <1>11, <1>12, <1>13 DEF Next, Ingest

LEMMA ConfirmsRecentStep ==
    ASSUME TypeOK, ConfirmsRecent, [Next]_vars
    PROVE  ConfirmsRecent'
<1>1. ASSUME UNCHANGED <<pc, filters, current_block_number>>  PROVE ConfirmsRecent'
  BY <1>1 DEF ConfirmsRecent
<1>2. CASE pc' # "confirm"
  BY <1>2 DEF ConfirmsRecent
<1>3. CASE IngestEvents
  <2>1. /\ current_block_number' = current_block_number
        /\ filters' = ConfirmationFilters(addresses, current_block_number)
    BY <1>3 DEF IngestEvents
  <2>2. current_block_number \in Nat /\ \A a \in addresses : a \in Addresses
    BY DEF TypeOK
  <2>3. ASSUME NEW f \in filters'
        PROVE  current_block_number <= f.from + 2 * MinConfirmationCount
    <3>1. PICK a \in Configured(addresses) :
             /\ IsInConfirmationWindow(a.next, current_block_number)
             /\ f.from = ConfirmationFromBlock(a.next, a.row.start_block_number)
      BY <2>1 DEF ConfirmationFilters, Configured
    <3>2. a.next \in Nat /\ a.row.start_block_number \in Nat
      BY <2>2, ContractAddressesAssumption DEF Configured, Addresses
    <3>3. a.next >= current_block_number - MinConfirmationCount
      BY <3>1 DEF IsInConfirmationWindow
    <3>4. f.from >= a.next - MinConfirmationCount
      BY <3>1, <3>2, MinConfirmationCountAssumption DEF ConfirmationFromBlock, DeductFrom, Larger
    <3>5. f.from \in Nat
      BY <3>1, <3>2, MinConfirmationCountAssumption DEF ConfirmationFromBlock, DeductFrom, Larger
    <3> QED BY <2>2, <3>2, <3>3, <3>4, <3>5, MinConfirmationCountAssumption
  <2> QED BY <2>1, <2>3 DEF ConfirmsRecent
<1>4. ASSUME NEW c \in ChainIds, MineBlock(c) \/ Reorg(c)  PROVE ConfirmsRecent'
  BY <1>1, <1>4, EnvironmentSteps DEF locals
<1>5. ASSUME NEW r \in ContractAddresses, IncludeContract(r)  PROVE ConfirmsRecent'
  BY <1>1, <1>5 DEF IncludeContract, locals
<1>6. ASSUME NEW f \in pending, FetchLogs(f)  PROVE ConfirmsRecent'
  BY <1>1, <1>6 DEF FetchLogs
<1>7. CASE Crash \/ FetchCurrentBlockNumber \/ OpenStream \/ StreamChunk \/ HandleChainReorg
           \/ FinishPass
  BY <1>2, <1>7 DEF Crash, FetchCurrentBlockNumber, OpenStream, StreamChunk, HandleChainReorg,
                    FinishPass
<1>8. CASE UNCHANGED vars
  BY <1>1, <1>8 DEF vars, locals
<1> QED BY <1>3, <1>4, <1>5, <1>6, <1>7, <1>8 DEF Next, Ingest

LEMMA RepairsStayAbovePruned ==
    ASSUME ChainsOutgrowPruning, PruningSparesRepairs
    PROVE  Spec => []RepairsUnpruned
<1>1. Init => PrunedBehind /\ ConfirmsRecent
  BY DEF Init, PrunedBehind, ConfirmsRecent
<1>2. /\ FeedInv /\ HeightsKept /\ PrunedBehind /\ ConfirmsRecent /\ [Next]_vars
      => PrunedBehind' /\ ConfirmsRecent'
  BY PrunedBehindStep, ConfirmsRecentStep DEF FeedInv, AtomicityInv
<1>3. FeedInv /\ PrunedBehind /\ ConfirmsRecent => RepairsUnpruned
  <2> SUFFICES ASSUME FeedInv, PrunedBehind, ConfirmsRecent, pc = "confirm",
                      NEW f \in filters
               PROVE  pruned_below[chain] <= f.from
    BY DEF RepairsUnpruned
  <2>1. /\ chain \in ChainIds /\ f.from \in Nat /\ pruned_below[chain] \in Nat
        /\ PruneNBlocksAway \in Nat /\ current_block_number \in Nat
    BY ChainFacts, BoundsAssumption DEF FeedInv, AtomicityInv, TypeOK, Filters
  <2>2. current_block_number <= f.from + 2 * MinConfirmationCount
    BY DEF ConfirmsRecent
  <2>3. \/ pruned_below[chain] = 0
        \/ /\ pruned_below[chain] + PruneNBlocksAway <= current_block_number
           /\ 2 * MinConfirmationCount <= PruneNBlocksAway
    BY DEF PrunedBehind, PruningSparesRepairs
  <2> QED BY <2>1, <2>2, <2>3, MinConfirmationCountAssumption
<1> QED BY <1>1, <1>2, <1>3, FeedInvariant, HeightsKeptInvariant, PTL DEF Spec

\* The same from the configuration alone: a block the handlers are made to go back to
\* has been mined since the pass began or has had two versions, if pruning keeps
\* twice the confirmation count.
THEOREM ReorgsAreReal ==
    ASSUME ChainsOutgrowPruning, PruningSparesRepairs, AddressesNotShared
    PROVE  Spec => ReorgRowsAreReal
BY ReorgsWereServed, RepairsStayAbovePruned, PTL
=============================================================================
