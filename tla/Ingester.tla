------------------------------ MODULE Ingester ------------------------------
(***************************************************************************)
(* One ingester subtask (ingester::start) and the chains of its chunk, the *)
(* JSON-RPC provider it reads and the tables it writes:                    *)
(* chaindexing_events, chaindexing_reorged_blocks and the ingest cursor of *)
(* chaindexing_contract_addresses.                                         *)
(*                                                                         *)
(* The chains are visited one after the other.  A visit is a pass: fetch   *)
(* the current block number once, then for each chunk of contract          *)
(* addresses their stream yields ingest a batch (one transaction), then    *)
(* fetch the recent blocks again and repair what a re-organization changed *)
(* (a second transaction), and at the end maybe prune.  Between any two of *)
(* these steps the chain may grow or re-organize, and the process may die. *)
(*                                                                         *)
(* A definition Foo_Slip is what a slip in the code would make of Foo; it  *)
(* takes the place of Foo to confirm that the properties can tell.         *)
(***************************************************************************)
EXTENDS ChainReorg, Sequences, FiniteSets, Functions

CONSTANTS
    ChainIds,            \* the chains of this subtask
    ChainsInOrder,       \* the same chains, in the order of the chunk
    ContractAddresses,   \* rows chaindexing_contract_addresses may ever hold:
                         \* [id, chain_id, address, contract_name, start_block_number]
    InitialAddresses,    \* the rows Config names; the others are included at run time
    ChunkSize,           \* ids a chunk of ContractAddressesStream spans
    PureHandlers,        \* per contract name in Config, the ABIs with a pure handler
    Logs,                \* [chain_id, address, abi, block_number, block_hash, log_index]
    Forks,               \* per chain, the full-length histories the provider may settle on
    InitialBlockNumber,  \* height of every chain when the indexer first starts
    MaxBlockNumber,      \* height at which the model stops mining
    MaxReorgDepth,       \* blocks a re-organization may replace
    MaxReorgs,           \* re-organizations, over all chains
    LastReorgHeight,     \* height past which a chain re-organizes no more
    MaxBlocksBetweenPasses, \* blocks mined from one pass over a chain to the next
    MaxBlocksMidPass,    \* blocks of it mined while the pass over it is running
    MaxCrashes,          \* process deaths, and aborts by NodeTask::stop
    PruningEnabled,      \* Config::pruning_config.is_some()
    PruneNBlocksAway,
    PruneInterval,
    PassDurations        \* seconds that may separate two passes over a chain

BlockNumbers == 0..MaxBlockNumber
Branches == UNION {Forks[c] : c \in ChainIds}
BlockHashes == UNION {{branch[b] : b \in BlockNumbers} : branch \in Branches}

ASSUME ChainsAssumption ==
    /\ ChainsInOrder \in Seq(ChainIds)
    /\ Len(ChainsInOrder) > 0
    /\ Range(ChainsInOrder) = ChainIds
    /\ \A i, j \in 1..Len(ChainsInOrder) : ChainsInOrder[i] = ChainsInOrder[j] => i = j

\* The id is a serial primary key, the same over all chains, and
\* chaindexing_contract_addresses_chain_address_index is a unique index.
ASSUME ContractAddressesAssumption ==
    /\ \A r \in ContractAddresses :
          r.chain_id \in ChainIds /\ r.id \in Nat \ {0} /\ r.start_block_number \in Nat
    /\ InitialAddresses \subseteq ContractAddresses
    /\ \A r, s \in ContractAddresses :
          r.id = s.id \/ (r.chain_id = s.chain_id /\ r.address = s.address) => r = s
    /\ \E r \in ContractAddresses : \A s \in ContractAddresses : s.id <= r.id

ASSUME ChunkSizeAssumption == ChunkSize \in Nat \ {0}

\* A block hash names one block: one chain, one number, one list of ancestors.
ASSUME ForksAssumption ==
    /\ \A c \in ChainIds : Forks[c] # {} /\ \A fork \in Forks[c] : DOMAIN fork = BlockNumbers
    /\ \A c, d \in ChainIds : \A f \in Forks[c], g \in Forks[d] : \A a, b \in BlockNumbers :
          f[a] = g[b] => c = d /\ a = b /\ \A i \in 0..a : f[i] = g[i]

ASSUME LogsAssumption ==
    /\ \A l \in Logs : l.chain_id \in ChainIds /\ l.block_number \in BlockNumbers
    /\ \A l, m \in Logs : l.block_hash = m.block_hash =>
          l.chain_id = m.chain_id /\ l.block_number = m.block_number
    /\ \A l \in Logs : \A fork \in Forks[l.chain_id] : \A b \in BlockNumbers :
          fork[b] = l.block_hash => b = l.block_number

ASSUME BoundsAssumption ==
    /\ MaxBlockNumber \in Nat /\ InitialBlockNumber \in BlockNumbers
    /\ {MaxReorgDepth, MaxReorgs, LastReorgHeight, MaxBlocksBetweenPasses, MaxBlocksMidPass,
        MaxCrashes} \subseteq Nat
    /\ PruningEnabled \in BOOLEAN /\ PruneNBlocksAway \in Nat /\ PruneInterval \in Nat
    /\ PassDurations \subseteq Nat /\ PassDurations # {}

-----------------------------------------------------------------------------
VARIABLES
    \* --- the provider (external): the chain it currently serves
    canonical,       \* per chain, the history it follows
    height,          \* per chain, its latest block number
    mined,           \* blocks mined since the last pass over the chain began
    reorgs, crashes, \* how many there have been
    served,          \* history: hashes of the blocks that have been canonical

    \* --- the database
    contract_addresses,               \* rows of chaindexing_contract_addresses
    next_block_number_to_ingest_from, \* their ingest cursor
    events,          \* per log, how many rows of chaindexing_events hold it
    reorged_blocks,  \* rows of chaindexing_reorged_blocks, oldest first
    pruned_below,    \* history: per chain, events below this block were pruned
    stored_early,    \* history: logs a repair stored past the block number of its pass

    \* --- the subtask's locals
    pc,
    chain_at,              \* position in ChainsInOrder
    current_block_number,  \* fetched once per pass
    from, to,              \* ids the stream has still to go through
    addresses,             \* the chunk's uningested rows, with the cursor as loaded
    filters,               \* filters of the running execution: [row, from, to]
    pending,               \* those whose eth_getLogs has not been answered yet
    logs,                  \* logs fetched so far
    last_pruned_at         \* chains with an entry in last_pruned_at_per_chain_id

provider == <<canonical, height, mined, reorgs, served>>
database == <<contract_addresses, next_block_number_to_ingest_from, events,
              reorged_blocks, pruned_below, stored_early>>
locals == <<chain_at, current_block_number, from, to, addresses, filters,
            pending, logs, last_pruned_at>>
vars == <<provider, crashes, database, pc, locals>>

chain == ChainsInOrder[chain_at]
-----------------------------------------------------------------------------
(* What the provider serves (external) *)

IsCanonical(l) ==
    /\ l.block_number <= height[l.chain_id]
    /\ canonical[l.chain_id][l.block_number] = l.block_hash

\* Contract::get_event_abis: both halves are taken from the pure handlers, so an ABI
\* with a side-effect handler only is not asked for.
GetEventAbis(contract_name) == PureHandlers[contract_name] \cup PureHandlers[contract_name]

IsInRange(l, f) == f.from <= l.block_number /\ l.block_number <= f.to

\* One eth_getLogs call: a filter carries no chain, its provider serves one.
FilterMatches(l, f) ==
    /\ l.chain_id = f.row.chain_id
    /\ l.address = f.row.address
    /\ l.abi \in GetEventAbis(f.row.contract_name)
    /\ IsInRange(l, f)

GetLogs(f) == {l \in Logs : FilterMatches(l, f) /\ IsCanonical(l)}

-----------------------------------------------------------------------------
(* ContractAddressesStream *)

RowsOf(c) == {r \in contract_addresses : r.chain_id = c}

\* unwrap_or(0) when the chain has no row
MinId(rows) == IF rows = {} THEN 0
               ELSE (CHOOSE r \in rows : \A s \in rows : r.id <= s.id).id
MaxId(rows) == IF rows = {} THEN 0
               ELSE (CHOOSE r \in rows : \A s \in rows : s.id <= r.id).id

\* id BETWEEN first AND last holds at both ends, and the next chunk begins at
\* last: the row there comes with both.
RowsBetween(c, first, last) == {r \in RowsOf(c) : first <= r.id /\ r.id <= last}

-----------------------------------------------------------------------------
(* Filters *)

ContractNames == DOMAIN PureHandlers

\* filter_uningested_contract_addresses
FilterUningested(rows, current) ==
    {[row |-> r, next |-> next_block_number_to_ingest_from[r]] :
        r \in {q \in rows : current >= next_block_number_to_ingest_from[q]}}

\* filters::get: a row whose contract is not in Config yields no filter.
Configured(as) == {a \in as : a.row.contract_name \in ContractNames}

MainFilters(as, current) ==
    {[row |-> a.row, from |-> a.next, to |-> MainToBlock(a.next, current)] :
        a \in Configured(as)}

ConfirmationFilters(as, current) ==
    {[row |-> a.row, from |-> ConfirmationFromBlock(a.next, a.row.start_block_number),
                     to   |-> ConfirmationToBlock(a.next)] :
        a \in {b \in Configured(as) : IsInConfirmationWindow(b.next, current)}}

\* load_latest_events: the newest stored block of an address, on whatever chain.
IsLatestIngestedBlock(address, block_number) ==
    LET stored == {l \in Logs : events[l] > 0 /\ l.address = address}
    IN  /\ \E l \in stored : l.block_number = block_number
        /\ \A l \in stored : l.block_number <= block_number

\* remove_already_ingested_filters: looks at the single-block filters only.
RemoveAlreadyIngested(fs) ==
    {f \in fs : ~ (f.from = f.to /\ IsLatestIngestedBlock(f.row.address, f.to))}

-----------------------------------------------------------------------------
(* The difference between the stored and the served events *)

IsSameEvent_ByNumber(l, m) ==
    l.chain_id = m.chain_id /\ l.address = m.address /\ l.abi = m.abi
    /\ l.block_number = m.block_number

\* PartialEq for Event: the log index and the transaction take no part.
IsSameEvent(l, m) ==
    /\ l.chain_id = m.chain_id
    /\ l.address = m.address
    /\ l.abi = m.abi
    /\ l.block_hash = m.block_hash

GetEvents_Exclusive(f) ==
    {l \in Logs : /\ events[l] > 0 /\ l.address = f.row.address
                  /\ f.from <= l.block_number /\ l.block_number < f.to}

\* Repo::get_events selects by address and block range; it is given no chain.
GetEvents(f) == {l \in Logs : events[l] > 0 /\ l.address = f.row.address /\ IsInRange(l, f)}

AlreadyIngestedEvents(fs) == UNION {GetEvents(f) : f \in fs}

AddedEvents(ingested, provided) ==
    {p \in provided : \A l \in ingested : ~ IsSameEvent(p, l)}

RemovedEvents(ingested, provided) ==
    {l \in ingested : \A p \in provided : ~ IsSameEvent(l, p)}

EarliestBlockNumber_Latest(changed) ==
    CHOOSE b \in BlockNumbers :
        /\ \E l \in changed : l.block_number = b
        /\ \A l \in changed : b >= l.block_number

EarliestBlockNumber(changed) ==
    CHOOSE b \in BlockNumbers :
        /\ \E l \in changed : l.block_number = b
        /\ \A l \in changed : b <= l.block_number

GetMinBlockNumber_OffByOne(current) ==
    IF current < PruneNBlocksAway THEN current ELSE current - PruneNBlocksAway + 1

\* PruningConfig::get_min_block_number
GetMinBlockNumber(current) ==
    IF current < PruneNBlocksAway THEN current ELSE current - PruneNBlocksAway

-----------------------------------------------------------------------------
(* Effects of the statements on the events table *)

WithCreated_OncePerAbi(table, created) ==
    [l \in Logs |-> IF l \in created /\ ~ \E m \in created : IsSameEvent(l, m) /\ m.log_index < l.log_index
                    THEN table[l] + 1 ELSE table[l]]

\* create_events: every row gets a fresh uuid, nothing else is unique.
WithCreated(table, created) ==
    [l \in Logs |-> IF l \in created THEN table[l] + 1 ELSE table[l]]

\* delete_events_by_ids, of every row that was loaded for these logs
WithDeleted(table, deleted) ==
    [l \in Logs |-> IF l \in deleted THEN 0 ELSE table[l]]

\* prune_events
WithPruned(table, min_block_number, chain_id) ==
    [l \in Logs |-> IF l.block_number < min_block_number /\ l.chain_id = chain_id
                    THEN 0 ELSE table[l]]

WithUpdatedCursors_NotPast(cursors, fs) ==
    [r \in ContractAddresses |->
        IF \E f \in fs : f.row = r THEN (CHOOSE f \in fs : f.row = r).to ELSE cursors[r]]

\* update_next_block_numbers_to_ingest_from; Main makes one filter per row.
WithUpdatedCursors(cursors, fs) ==
    [r \in ContractAddresses |->
        IF \E f \in fs : f.row = r THEN (CHOOSE f \in fs : f.row = r).to + 1 ELSE cursors[r]]

-----------------------------------------------------------------------------
Init ==
    /\ canonical \in {f \in [ChainIds -> Branches] :
                         \A c \in ChainIds : f[c] \in Forks[c]}
    /\ height = [c \in ChainIds |-> InitialBlockNumber]
    /\ mined = [c \in ChainIds |-> 0]
    /\ reorgs = 0 /\ crashes = 0
    /\ served = {canonical[c][b] : c \in ChainIds, b \in 0..InitialBlockNumber}
    /\ contract_addresses = InitialAddresses
    /\ next_block_number_to_ingest_from =
          [r \in ContractAddresses |-> r.start_block_number]
    /\ events = [l \in Logs |-> 0]
    /\ reorged_blocks = <<>>
    /\ pruned_below = [c \in ChainIds |-> 0] /\ stored_early = {}
    /\ pc = "start" /\ chain_at = 1 /\ current_block_number = 0
    /\ from = 0 /\ to = 0 /\ addresses = {} /\ filters = {} /\ pending = {} /\ logs = {}
    /\ last_pruned_at = {}

-----------------------------------------------------------------------------
(* The environment: the chains, contracts discovered by handlers, crashes *)

MineBlock(c) ==
    /\ height[c] < MaxBlockNumber
    /\ mined[c] < MaxBlocksBetweenPasses
    /\ (c = chain /\ pc # "start") => mined[c] < MaxBlocksMidPass
    /\ height' = [height EXCEPT ![c] = @ + 1]
    /\ mined' = [mined EXCEPT ![c] = @ + 1]
    /\ served' = served \cup {canonical[c][height[c] + 1]}
    /\ UNCHANGED <<canonical, reorgs, crashes, database, pc, locals>>

\* The newest blocks are replaced by as many of another branch.
Reorg(c) ==
    /\ reorgs < MaxReorgs
    /\ height[c] <= LastReorgHeight
    /\ \E fork \in Forks[c] :
          /\ fork[height[c]] # canonical[c][height[c]]
          /\ \A b \in BlockNumbers :
                b + MaxReorgDepth <= height[c] => fork[b] = canonical[c][b]
          /\ canonical' = [canonical EXCEPT ![c] = fork]
          /\ served' = served \cup {fork[b] : b \in 0..height[c]}
    /\ reorgs' = reorgs + 1
    /\ UNCHANGED <<height, mined, crashes, database, pc, locals>>

\* include_contract, by a handler of an event in the row's start block
IncludeContract(r) ==
    /\ r \notin contract_addresses
    /\ r.start_block_number <= height[r.chain_id]
    /\ contract_addresses' = contract_addresses \cup {r}
    /\ UNCHANGED <<provider, crashes, next_block_number_to_ingest_from, events,
                   reorged_blocks, pruned_below, stored_early, pc, locals>>

\* The process dies, or NodeTask::stop aborts the subtask at an await; an open
\* transaction is rolled back.  The subtask starts over with fresh locals.
Crash ==
    /\ crashes < MaxCrashes
    /\ crashes' = crashes + 1
    /\ pc' = "start" /\ chain_at' = 1 /\ current_block_number' = 0
    /\ from' = 0 /\ to' = 0 /\ addresses' = {} /\ filters' = {} /\ pending' = {} /\ logs' = {}
    /\ last_pruned_at' = {}
    /\ UNCHANGED <<provider, database>>

-----------------------------------------------------------------------------
(* The subtask *)

\* provider::fetch_current_block_number, at the start of ingest_for_chain
FetchCurrentBlockNumber ==
    /\ pc = "start"
    /\ current_block_number' = height[chain]
    /\ mined' = [mined EXCEPT ![chain] = 0]
    /\ pc' = "open"
    /\ UNCHANGED <<canonical, height, reorgs, served, crashes, database, chain_at, from, to,
                   addresses, filters, pending, logs, last_pruned_at>>

\* The first poll of the stream: MIN(id) and MAX(id) of the rows the chain has by
\* now.  Rows with greater ids are included by handlers while the pass goes on.
OpenStream ==
    /\ pc = "open"
    /\ from' = MinId(RowsOf(chain))
    /\ to' = MaxId(RowsOf(chain))
    /\ pc' = "stream"
    /\ UNCHANGED <<provider, crashes, database, chain_at, current_block_number,
                   addresses, filters, pending, logs, last_pruned_at>>

\* contract_addresses_stream.next(), then ingest_events::run up to its first
\* eth_getLogs.  The cursors are as the stream loaded them, also later on.
StreamChunk ==
    /\ pc = "stream"
    /\ from <= to
    /\ from' = from + ChunkSize
    /\ addresses' = FilterUningested(RowsBetween(chain, from, from + ChunkSize),
                                     current_block_number)
    /\ filters' = RemoveAlreadyIngested(MainFilters(addresses', current_block_number))
    /\ pending' = filters'
    /\ logs' = {}
    /\ pc' = "ingest"
    /\ UNCHANGED <<provider, crashes, database, chain_at, current_block_number, to,
                   last_pruned_at>>

\* One answer within provider::fetch_logs.  When one of them fails all are
\* discarded and asked for again: an attempt that fails leaves no trace.
FetchLogs(f) ==
    /\ pc \in {"ingest", "confirm"}
    /\ f \in pending
    /\ logs' = logs \cup GetLogs(f)
    /\ pending' = pending \ {f}
    /\ UNCHANGED <<provider, crashes, database, pc, chain_at, current_block_number,
                   from, to, addresses, filters, last_pruned_at>>

\* The transaction of ingest_events::run, then maybe_handle_chain_reorg::run up
\* to its first eth_getLogs.
IngestEvents ==
    /\ pc = "ingest"
    /\ pending = {}
    /\ events' = WithCreated(events, logs)
    /\ next_block_number_to_ingest_from' =
          WithUpdatedCursors(next_block_number_to_ingest_from, filters)
    /\ filters' = ConfirmationFilters(addresses, current_block_number)
    /\ pending' = filters'
    /\ logs' = {}
    /\ pc' = "confirm"
    /\ UNCHANGED <<provider, crashes, contract_addresses, reorged_blocks, pruned_below,
                   stored_early, chain_at, current_block_number, from, to, addresses,
                   last_pruned_at>>

\* maybe_handle_chain_reorg::run once the logs are there, and the transaction
\* of handle_chain_reorg.  The confirmation filters are not capped by the block
\* number of the pass: a block mined since is stored here, ahead of the cursor.
HandleChainReorg ==
    /\ pc = "confirm"
    /\ pending = {}
    /\ LET ingested == AlreadyIngestedEvents(filters)
           added    == AddedEvents(ingested, logs)
           removed  == RemovedEvents(ingested, logs)
       IN  IF added \cup removed = {}
           THEN UNCHANGED <<events, reorged_blocks, stored_early>>
           ELSE /\ events' = WithCreated(WithDeleted(events, removed), added)
                /\ reorged_blocks' = Append(reorged_blocks,
                      [chain_id     |-> chain,
                       block_number |-> EarliestBlockNumber(added \cup removed)])
                /\ stored_early' = stored_early \cup
                      {l \in added : l.block_number > current_block_number}
    /\ addresses' = {} /\ filters' = {} /\ logs' = {}
    /\ pc' = "stream"
    /\ UNCHANGED <<provider, crashes, contract_addresses, next_block_number_to_ingest_from,
                   pruned_below, pending, chain_at, current_block_number, from, to,
                   last_pruned_at>>

\* The stream is exhausted: maybe_prune, then the next chain of the chunk.  The
\* time of the last pass is recorded whether or not anything was pruned.
FinishPass ==
    /\ pc = "stream"
    /\ from > to
    /\ \E elapsed \in IF chain \in last_pruned_at THEN PassDurations ELSE {0} :
          IF PruningEnabled /\ elapsed >= PruneInterval
          THEN LET min_block_number == GetMinBlockNumber(current_block_number) IN
               /\ events' = WithPruned(events, min_block_number, chain)
               /\ pruned_below' = [pruned_below EXCEPT ![chain] = Larger(@, min_block_number)]
          ELSE UNCHANGED <<events, pruned_below>>
    /\ last_pruned_at' = IF PruningEnabled THEN last_pruned_at \cup {chain} ELSE {}
    /\ chain_at' = IF chain_at = Len(ChainsInOrder) THEN 1 ELSE chain_at + 1
    /\ pc' = "start" /\ current_block_number' = 0 /\ from' = 0 /\ to' = 0
    /\ UNCHANGED <<provider, crashes, contract_addresses, next_block_number_to_ingest_from,
                   reorged_blocks, stored_early, addresses, filters, pending, logs>>

Ingest ==
    \/ FetchCurrentBlockNumber
    \/ OpenStream
    \/ StreamChunk
    \/ \E f \in pending : FetchLogs(f)
    \/ IngestEvents
    \/ HandleChainReorg
    \/ FinishPass

Next ==
    \/ \E c \in ChainIds : MineBlock(c) \/ Reorg(c)
    \/ \E r \in ContractAddresses : IncludeContract(r)
    \/ Crash
    \/ Ingest

Spec == Init /\ [][Next]_vars

\* The subtask loops for ever on an interval, the provider answers sooner or
\* later (its failures are retried for ever) and the chains go on growing.  A
\* chain waits for nobody; it is strong fairness that expresses this where the
\* bound on the blocks mined during a pass disables MineBlock now and then.
Fairness == WF_vars(Ingest) /\ \A c \in ChainIds : SF_vars(MineBlock(c))

FairSpec == Spec /\ Fairness

-----------------------------------------------------------------------------
(* Properties *)

Filters == [row : ContractAddresses, from : Nat, to : Nat]
Addresses == [row : ContractAddresses, next : Nat]

\* Every variable stays within its type.
TypeOK ==
    /\ canonical \in [ChainIds -> Branches]
    /\ \A c \in ChainIds : canonical[c] \in Forks[c]
    /\ height \in [ChainIds -> BlockNumbers]
    /\ mined \in [ChainIds -> Nat]
    /\ reorgs \in Nat /\ crashes \in Nat
    /\ served \subseteq BlockHashes
    /\ contract_addresses \subseteq ContractAddresses
    /\ next_block_number_to_ingest_from \in [ContractAddresses -> Nat]
    /\ events \in [Logs -> Nat]
    /\ reorged_blocks \in Seq([chain_id : ChainIds, block_number : BlockNumbers])
    /\ pruned_below \in [ChainIds -> Nat]
    /\ stored_early \subseteq Logs
    /\ pc \in {"start", "open", "stream", "ingest", "confirm"}
    /\ chain_at \in DOMAIN ChainsInOrder
    /\ current_block_number \in Nat
    /\ from \in Nat /\ to \in Nat
    /\ addresses \subseteq Addresses
    /\ filters \subseteq Filters
    /\ pending \subseteq filters
    /\ logs \subseteq Logs
    /\ last_pruned_at \subseteq ChainIds

BelongsTo(l, r) == l.chain_id = r.chain_id /\ l.address = r.address

\* The logs of a block a row subscribes to: those of its contract's handlers
\* that the ingester knows of.
SubscribedLogs(r, hash) ==
    {l \in Logs : BelongsTo(l, r) /\ l.block_hash = hash /\ l.abi \in GetEventAbis(r.contract_name)}

StoredAt(r, b) == {l \in Logs : BelongsTo(l, r) /\ l.block_number = b /\ events[l] > 0}

IngestedRows == {r \in contract_addresses : r.contract_name \in ContractNames}

IngestedBlocks(r) ==
    {b \in BlockNumbers : /\ r.start_block_number <= b
                          /\ b < next_block_number_to_ingest_from[r]
                          /\ b >= pruned_below[r.chain_id]}

\* The blocks of number b the provider has served on r's chain.
ServedAt(c, b) == {h \in served : \E fork \in Forks[c] : fork[b] = h}

\* What is stored of a block for an address is stored whole: two subscribed
\* events of one block have been inserted and deleted together.  The comparison
\* of stored with served events rests on it, for PartialEq on Event cannot tell
\* two logs of one ABI in one block apart.
BlockAtomic ==
    \A r \in ContractAddresses : \A l, m \in Logs :
        /\ BelongsTo(l, r) /\ BelongsTo(m, r) /\ l.block_hash = m.block_hash
        /\ r.contract_name \in ContractNames
        /\ {l.abi, m.abi} \subseteq GetEventAbis(r.contract_name)
        => events[l] = events[m]

\* No block behind an ingest cursor is forgotten: for each there is a version of
\* it the chain has had whose events are all stored, in spite of crashes between
\* the two transactions of a pass and of re-organizations at any moment.
CursorCoverage ==
    \A r \in IngestedRows : \A b \in IngestedBlocks(r) :
        \E h \in ServedAt(r.chain_id, b) : SubscribedLogs(r, h) \subseteq StoredAt(r, b)

\* A repair stored the block before the cursor got there: the confirmation filter
\* of the code ends BlocksPerBatch past the cursor, whatever the pass's block number.
IsEarly(r, b) == \E l \in stored_early : BelongsTo(l, r) /\ l.block_number = b

\* Stronger: behind the cursor the table holds exactly one version of each block,
\* every event once.  The condition is that no repair has stored the block ahead
\* of the cursor, which happens when it is mined while a pass runs: such a block is
\* ingested a second time, beside what is there.
MirrorsServedBlock ==
    \A r \in IngestedRows : \A b \in IngestedBlocks(r) :
        ~ IsEarly(r, b) =>
            /\ \E h \in ServedAt(r.chain_id, b) : StoredAt(r, b) = SubscribedLogs(r, h)
            /\ \A l \in StoredAt(r, b) : events[l] = 1

\* Handlers are made to go back for a re-organization, or for a block mined since
\* the pass fetched its block number: a new row of chaindexing_reorged_blocks
\* names a block past that number or one that has had two versions.  (The code does
\* not mean the first: its confirmation filter is not capped.)
ReorgRowsAreReal ==
    [][\A i \in DOMAIN reorged_blocks' \ DOMAIN reorged_blocks :
          LET row == reorged_blocks'[i] IN
          \/ row.block_number > current_block_number
          \/ \E g, h \in ServedAt(row.chain_id, row.block_number) : g # h]_vars

\* The repair leaves in the re-fetched range of each address what the provider
\* answered and nothing else, although events are compared by ABI and block hash.
ConfirmationMirrorsProvider ==
    [][pc = "confirm" /\ pc' = "stream" =>
          \A f \in filters : \A l \in Logs :
              BelongsTo(l, f.row) /\ IsInRange(l, f) => (events'[l] > 0 <=> l \in logs)]_vars

\* Events the handlers may have handled already (they lie behind the ingest
\* cursor) change, other than by the pruning that ends a pass, only together with a new row of
\* chaindexing_reorged_blocks that makes the handlers go back that far.
ChangesAnnounced ==
    [][\A r \in contract_addresses : \A l \in Logs :
          /\ BelongsTo(l, r)
          /\ l.block_number < next_block_number_to_ingest_from[r]
          /\ (events[l] > 0) # (events'[l] > 0)
          /\ pc' # "start"
          => \E i \in DOMAIN reorged_blocks' \ DOMAIN reorged_blocks :
                /\ reorged_blocks'[i].chain_id = l.chain_id
                /\ reorged_blocks'[i].block_number <= l.block_number]_vars

\* Why BlockAtomic and ConfirmationMirrorsProvider hold: between the transactions
\* the subtask works on filters of its chain only, and the logs it has gathered
\* are themselves whole blocks of what those filters ask for.
FiltersOfChain ==
    /\ \A a \in addresses : a.row.chain_id = chain
    /\ \A f \in filters : f.row.chain_id = chain /\ f.row.contract_name \in ContractNames
    /\ pc \in {"start", "open", "stream"} => addresses = {} /\ filters = {} /\ logs = {}

LogsMatchFilters == \A l \in logs : \E f \in filters : FilterMatches(l, f)

LogsAtomic ==
    \A r \in ContractAddresses : \A l, m \in Logs :
        /\ BelongsTo(l, r) /\ BelongsTo(m, r) /\ l.block_hash = m.block_hash
        /\ r.contract_name \in ContractNames
        /\ {l.abi, m.abi} \subseteq GetEventAbis(r.contract_name)
        => (l \in logs <=> m \in logs)

AtomicityInv == TypeOK /\ FiltersOfChain /\ LogsMatchFilters /\ LogsAtomic /\ BlockAtomic

IsSubscribed(l, r) ==
    /\ BelongsTo(l, r) /\ l.abi \in GetEventAbis(r.contract_name)
    /\ l.block_number >= r.start_block_number

ConfiguredRows == {r \in ContractAddresses : r.contract_name \in ContractNames}

Feed == INSTANCE EventFeed WITH
    Rows      <- ConfiguredRows,
    rows      <- IngestedRows,
    Blocks    <- [c \in ChainIds |-> [b \in BlockNumbers |-> {fork[b] : fork \in Forks[c]}]],
    Emitted   <- [r \in ConfiguredRows |-> [h \in BlockHashes |-> SubscribedLogs(r, h)]],
    mirror    <- [r \in ConfiguredRows |-> [b \in BlockNumbers |-> StoredAt(r, b)]],
    cursor    <- [r \in ConfiguredRows |-> next_block_number_to_ingest_from[r]],
    announced <- reorged_blocks

\* The ingester keeps what it promises the handlers: each of its steps moves
\* cursors over whole blocks, replaces whole blocks and announces it, prunes, or
\* changes nothing the handlers see.
ImplementsFeed == Feed!Spec


\* Pruning keeps the events of the last prune_n_blocks_away blocks, on a chain at
\* least that long: a shorter one is pruned up to its latest block
\* (PruningConfig::get_min_block_number).
PruningRetainsRecent ==
    [][\A l \in Logs :
          /\ pc' = "start"
          /\ events[l] > 0 /\ events'[l] = 0
          => l.block_number + PruneNBlocksAway < current_block_number]_vars
=============================================================================
