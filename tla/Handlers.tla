------------------------------ MODULE Handlers ------------------------------
(***************************************************************************)
(* The handlers' task (handlers::start): one subtask per chunk of chains   *)
(* that runs the pure and the side-effect handlers over the stored events  *)
(* (handle_events::run), and beside it the loop that makes the handlers go *)
(* back after a chain re-organization (maybe_handle_chain_reorg::run).     *)
(* They share tables and no lock: the rows of                              *)
(* chaindexing_contract_addresses with the two handler cursors, the        *)
(* reorged blocks and the state versions.                                  *)
(*                                                                         *)
(* The ingester appears as what it commits: the events of further blocks,  *)
(* and, for a re-organization, the replacement of events together with a   *)
(* row of chaindexing_reorged_blocks.  A state is its versions: one for    *)
(* each event a pure handler has handled.                                  *)
(*                                                                         *)
(* A definition Foo_Slip is what a slip in the code would make of Foo; it  *)
(* takes the place of Foo to confirm that the properties can tell.         *)
(***************************************************************************)
EXTENDS ChainReorg, FiniteSets

CONSTANTS
    ChainIds,           \* each handled by a subtask of its own
    ContractAddresses,  \* rows: [chain_id, address, start_block_number]
    Id,                 \* of a row, the key the stream pages by
    ChunkSize,          \* of the stream, 200 in the code
    Events,             \* what a contract may emit: [row, abi, block_number,
                        \* log_index, fork]
    PureAbis,           \* ABIs with a pure handler
    SideEffectAbis,     \* ABIs with a side-effect handler
    StateTables,        \* states::get_all_table_names
    TableOf,            \* the table the pure handler of an ABI writes to, if any
    MaxBlockNumber,     \* height of every chain
    MaxReorgs,          \* re-organizations, over all chains
    MaxCrashes          \* process deaths, and aborts by NodeTask::stop

BlockNumbers == 0..MaxBlockNumber
Forks == 0..MaxReorgs

ASSUME RowsAssumption ==
    \A r \in ContractAddresses : r.chain_id \in ChainIds /\ r.start_block_number \in BlockNumbers

ASSUME StreamAssumption == Id \in [ContractAddresses -> Nat \ {0}] /\ ChunkSize \in Nat \ {0}

\* The log index is unique within a block.
ASSUME EventsAssumption ==
    /\ IsFiniteSet(Events)
    /\ \A e \in Events :
          /\ e.row \in ContractAddresses /\ e.block_number \in BlockNumbers
          /\ e.log_index \in Nat /\ e.fork \in Forks
    /\ \A e, f \in Events :
          /\ e.row.chain_id = f.row.chain_id /\ e.fork = f.fork
          /\ e.block_number = f.block_number /\ e.log_index = f.log_index
          => e = f

ASSUME HandlerBoundsAssumption == {MaxBlockNumber, MaxReorgs, MaxCrashes} \subseteq Nat

-----------------------------------------------------------------------------
VARIABLES
    \* --- the ingester (external) and what it commits
    fork,            \* per chain and block, which of its versions is canonical
    ingested,        \* per row, next_block_number_to_ingest_from
    events,          \* rows of chaindexing_events
    reorged_blocks,  \* rows of chaindexing_reorged_blocks: [id, chain_id, block_number]

    \* --- the other tables
    next_block_number_to_handle_from,
    next_block_number_for_side_effects,
    handled_reorged_blocks,    \* ids of the reorged blocks with handled_at set
    state_versions,  \* per event, how many state versions carry it

    \* --- the outside world, and a counter
    side_effects,    \* per event, how often its side-effect handler ran
    crashes,

    \* --- locals of the subtask of a chain
    pc,              \* "stream" between two rows, "txn" in a row's transaction
    next_id,         \* where the stream's next chunk begins, 0 if no stream is open
    contract_addresses, \* rows of the chunk still to do, with cursors as loaded
    contract_address,   \* the row being handled
    batch,           \* the events loaded for it
    done,            \* those already handed to the handlers

    \* --- locals of the re-organization loop
    reorg_pc,        \* "load", "backtrack", or "dead" after a panic
    earliest,        \* the reorged blocks of this round, one per chain
    backtracked      \* per chain done so far, the versions found to delete

ingester == <<fork, ingested, events, reorged_blocks>>
cursors == <<next_block_number_to_handle_from, next_block_number_for_side_effects>>
tables == <<cursors, handled_reorged_blocks, state_versions>>
subtask == <<pc, next_id, contract_addresses, contract_address, batch, done>>
reorg_loop == <<reorg_pc, earliest, backtracked>>
vars == <<ingester, tables, side_effects, crashes, subtask, reorg_loop>>

NoRow == [row |-> "none"]
-----------------------------------------------------------------------------
(* load_events *)

Precedes(e, f) ==
    \/ e.block_number < f.block_number
    \/ e.block_number = f.block_number /\ e.log_index < f.log_index

StoredFrom_Exclusive(row, from) == {e \in events : e.row = row /\ e.block_number > from}

StoredFrom(row, from) == {e \in events : e.row = row /\ e.block_number >= from}

\* ORDER BY block_number ASC, log_index ASC LIMIT blocks_per_batch: the limit
\* counts events.
LoadEvents(row, from) ==
    {e \in StoredFrom(row, from) :
        Cardinality({f \in StoredFrom(row, from) : Precedes(f, e)}) < BlocksPerBatch}

LastBlockNumber(es) ==
    CHOOSE b \in BlockNumbers : /\ \E e \in es : e.block_number = b
                                /\ \A e \in es : e.block_number <= b

-----------------------------------------------------------------------------
(* The cursors at the end of a row's transaction *)

NextToHandleFrom_NotPast(es) == LastBlockNumber(es)

NextToHandleFrom(es) == LastBlockNumber(es) + 1

MovesSideEffects_Always(a, es) == TRUE

\* Only upwards, compared with the row as the stream loaded it.
MovesSideEffects(a, es) == NextToHandleFrom(es) > a.side_effects_from

HasSideEffect(e, a) == e.abi \in SideEffectAbis /\ e.block_number >= a.side_effects_from

\* A pure handler that keeps a state appends one version to it.
WritesState(e) == e.abi \in PureAbis /\ TableOf[e.abi] \in StateTables

-----------------------------------------------------------------------------
(* Chain re-organizations *)

UnhandledReorgedBlocks == {r \in reorged_blocks : r.id \notin handled_reorged_blocks}

VersionsFrom_Uncommitted(chain_id, block_number) ==
    [e \in Events |-> IF e.row.chain_id = chain_id /\ e.block_number >= block_number
                      THEN state_versions[e] +
                           Cardinality({c \in ChainIds : e \in done[c] /\ WritesState(e)})
                      ELSE 0]

\* StateVersions::get, over all tables
VersionsFrom(chain_id, block_number) ==
    [e \in Events |-> IF e.row.chain_id = chain_id /\ e.block_number >= block_number
                      THEN state_versions[e] ELSE 0]

\* delete_by_ids is given no ids for a table without such versions, its query
\* ends in `IN ()` and fails, and the loop's subtask panics.
PanicsOnBacktrack(found) ==
    \E table \in StateTables :
        \A e \in Events : found[e] > 0 => TableOf[e.abi] # table

DeletedVersions(e) == IF e.row.chain_id \in DOMAIN backtracked
                      THEN backtracked[e.row.chain_id][e] ELSE 0

HandledIds_BlockNumbers(rows) == {r.block_number : r \in rows}

\* ReorgedBlocks::get_ids
HandledIds(rows) == {r.id : r \in rows}

-----------------------------------------------------------------------------
Init ==
    /\ fork = [c \in ChainIds |-> [b \in BlockNumbers |-> 0]]
    /\ ingested = [r \in ContractAddresses |-> r.start_block_number]
    /\ events = {}
    /\ reorged_blocks = {}
    /\ next_block_number_to_handle_from = [r \in ContractAddresses |-> r.start_block_number]
    /\ next_block_number_for_side_effects = [r \in ContractAddresses |-> 0]
    /\ handled_reorged_blocks = {}
    /\ state_versions = [e \in Events |-> 0]
    /\ side_effects = [e \in Events |-> 0]
    /\ crashes = 0
    /\ pc = [c \in ChainIds |-> "stream"]
    /\ next_id = [c \in ChainIds |-> 0]
    /\ contract_addresses = [c \in ChainIds |-> {}]
    /\ contract_address = [c \in ChainIds |-> NoRow]
    /\ batch = [c \in ChainIds |-> {}]
    /\ done = [c \in ChainIds |-> {}]
    /\ reorg_pc = "load" /\ earliest = {} /\ backtracked = <<>>

-----------------------------------------------------------------------------
(* The ingester: its transactions, as seen by the handlers *)

IsCanonical(e, forks) == e.fork = forks[e.block_number]

\* ingest_events::run: the events of the blocks up to to_block_number, all at once
IngestEvents(r, to_block_number) ==
    /\ ingested[r] <= to_block_number
    /\ events' = events \cup
          {e \in Events : /\ e.row = r
                          /\ ingested[r] <= e.block_number /\ e.block_number <= to_block_number
                          /\ IsCanonical(e, fork[r.chain_id])}
    /\ ingested' = [ingested EXCEPT ![r] = to_block_number + 1]
    /\ UNCHANGED <<fork, reorged_blocks, tables, side_effects, crashes, subtask, reorg_loop>>

\* The blocks from some number on are replaced, and handle_chain_reorg commits:
\* stored events are replaced and the earliest block with a change is recorded.
ReorgChain(c) ==
    /\ Cardinality(reorged_blocks) < MaxReorgs
    /\ \E from \in BlockNumbers \ {0} :
          LET id    == Cardinality(reorged_blocks) + 1
              forks == [b \in BlockNumbers |-> IF b >= from THEN id ELSE fork[c][b]]
              removed == {e \in events : e.row.chain_id = c /\ ~ IsCanonical(e, forks)}
              added == {e \in Events : /\ e.row.chain_id = c /\ e.block_number >= from
                                       /\ IsCanonical(e, forks)
                                       /\ e.row.start_block_number <= e.block_number
                                       /\ e.block_number < ingested[e.row]}
          IN  \E first \in added \cup removed :
                 /\ \A e \in added \cup removed : first.block_number <= e.block_number
                 /\ fork' = [fork EXCEPT ![c] = forks]
                 /\ events' = (events \ removed) \cup added
                 /\ reorged_blocks' = reorged_blocks \cup
                       {[id |-> id, chain_id |-> c, block_number |-> first.block_number]}
    /\ UNCHANGED <<ingested, tables, side_effects, crashes, subtask, reorg_loop>>

-----------------------------------------------------------------------------
(* handle_events::run, the subtask of chain c *)

RowsOf(c) == {r \in ContractAddresses : r.chain_id = c}

RowIds(c) == {Id[r] : r \in RowsOf(c)}

\* A new stream begins at the lowest id.
FirstId(c, from) ==
    IF next_id[c] = 0 THEN from \in RowIds(c) /\ \A i \in RowIds(c) : from <= i
                      ELSE from = next_id[c]

\* Both ends are inclusive and the next chunk begins where this one ends.
Chunk(c, from) == {r \in RowsOf(c) : from <= Id[r] /\ Id[r] <= from + ChunkSize}

\* contract_addresses_stream.next(): the rows of a chunk, with their cursors
StreamContractAddresses(c) ==
    /\ pc[c] = "stream"
    /\ contract_addresses[c] = {}
    /\ \E from \in RowIds(c) \cup {next_id[c]} :
          LET next == from + ChunkSize
          IN  /\ FirstId(c, from)
              /\ contract_addresses' = [contract_addresses EXCEPT ![c] =
                    {[row |-> r,
                      handle_from |-> next_block_number_to_handle_from[r],
                      side_effects_from |-> next_block_number_for_side_effects[r]] :
                        r \in Chunk(c, from)}]
              /\ next_id' = [next_id EXCEPT ![c] =
                    IF \E i \in RowIds(c) : next <= i THEN next ELSE 0]
    /\ UNCHANGED <<ingester, tables, side_effects, crashes, pc, contract_address, batch, done,
                   reorg_loop>>

\* load_events for the next row, then its transaction begins.
BeginTransaction(c) ==
    /\ pc[c] = "stream"
    /\ \E a \in contract_addresses[c] :
          /\ contract_address' = [contract_address EXCEPT ![c] = a]
          /\ contract_addresses' = [contract_addresses EXCEPT ![c] = @ \ {a}]
          /\ batch' = [batch EXCEPT ![c] = LoadEvents(a.row, a.handle_from)]
    /\ done' = [done EXCEPT ![c] = {}]
    /\ pc' = [pc EXCEPT ![c] = "txn"]
    /\ UNCHANGED <<ingester, tables, side_effects, crashes, next_id, reorg_loop>>

\* Both handlers of the next event.  What the pure handler writes is in the
\* transaction; what the side-effect handler does is done.
HandleEvent(c) ==
    /\ pc[c] = "txn"
    /\ \E e \in batch[c] \ done[c] :
          /\ \A f \in batch[c] \ done[c] : ~ Precedes(f, e)
          /\ done' = [done EXCEPT ![c] = @ \cup {e}]
          /\ side_effects' = IF HasSideEffect(e, contract_address[c])
                             THEN [side_effects EXCEPT ![e] = @ + 1] ELSE side_effects
    /\ UNCHANGED <<ingester, tables, crashes, pc, next_id, contract_addresses, contract_address,
                   batch, reorg_loop>>

\* The cursors are updated and the transaction commits.
CommitTransaction(c) ==
    /\ pc[c] = "txn"
    /\ done[c] = batch[c]
    /\ state_versions' = [e \in Events |-> IF e \in done[c] /\ WritesState(e)
                                           THEN state_versions[e] + 1 ELSE state_versions[e]]
    /\ LET a == contract_address[c]
       IN  IF batch[c] = {} THEN UNCHANGED cursors
           ELSE /\ next_block_number_to_handle_from' =
                      [next_block_number_to_handle_from EXCEPT ![a.row] = NextToHandleFrom(batch[c])]
                /\ next_block_number_for_side_effects' =
                      [next_block_number_for_side_effects EXCEPT ![a.row] =
                          IF MovesSideEffects(a, batch[c]) THEN NextToHandleFrom(batch[c]) ELSE @]
    /\ pc' = [pc EXCEPT ![c] = "stream"]
    /\ contract_address' = [contract_address EXCEPT ![c] = NoRow]
    /\ batch' = [batch EXCEPT ![c] = {}]
    /\ done' = [done EXCEPT ![c] = {}]
    /\ UNCHANGED <<ingester, handled_reorged_blocks, side_effects, crashes, next_id,
                   contract_addresses, reorg_loop>>

HandleEvents(c) ==
    \/ StreamContractAddresses(c)
    \/ BeginTransaction(c)
    \/ HandleEvent(c)
    \/ CommitTransaction(c)

-----------------------------------------------------------------------------
(* maybe_handle_chain_reorg::run *)

LoadReorgedBlocks ==
    /\ reorg_pc = "load"
    /\ UnhandledReorgedBlocks # {}
    /\ earliest' \in OnlyEarliestPerChain(UnhandledReorgedBlocks)
    /\ backtracked' = <<>>
    /\ reorg_pc' = "backtrack"
    /\ UNCHANGED <<ingester, tables, side_effects, crashes, subtask>>

\* states::backtrack_states reads the versions committed by now; those a handler
\* has written in a transaction that is still open escape it.
BacktrackStates(r) ==
    /\ reorg_pc = "backtrack"
    /\ r \in earliest
    /\ r.chain_id \notin DOMAIN backtracked
    /\ LET found == VersionsFrom(r.chain_id, r.block_number)
       IN  IF PanicsOnBacktrack(found)
           THEN reorg_pc' = "dead" /\ earliest' = {} /\ backtracked' = <<>>
           ELSE /\ backtracked' = [c \in DOMAIN backtracked \cup {r.chain_id} |->
                                     IF c = r.chain_id THEN found ELSE backtracked[c]]
                /\ UNCHANGED <<reorg_pc, earliest>>
    /\ UNCHANGED <<ingester, tables, side_effects, crashes, subtask>>

\* The versions found are deleted, every row of the chain is set to the reorged
\* block, whether that is back or forward, the rows are marked handled: one commit.
CommitReorg ==
    /\ reorg_pc = "backtrack"
    /\ \A r \in earliest : r.chain_id \in DOMAIN backtracked
    /\ state_versions' = [e \in Events |-> state_versions[e] - DeletedVersions(e)]
    /\ next_block_number_to_handle_from' =
          [a \in ContractAddresses |->
              IF \E r \in earliest : r.chain_id = a.chain_id
              THEN (CHOOSE r \in earliest : r.chain_id = a.chain_id).block_number
              ELSE next_block_number_to_handle_from[a]]
    /\ handled_reorged_blocks' = handled_reorged_blocks \cup HandledIds(earliest)
    /\ reorg_pc' = "load" /\ earliest' = {} /\ backtracked' = <<>>
    /\ UNCHANGED <<ingester, next_block_number_for_side_effects, side_effects, crashes, subtask>>

HandleChainReorg ==
    \/ LoadReorgedBlocks
    \/ \E r \in earliest : BacktrackStates(r)
    \/ CommitReorg

\* Open transactions are rolled back; the subtasks start over, a panicked one too.
Crash ==
    /\ crashes < MaxCrashes
    /\ crashes' = crashes + 1
    /\ pc' = [c \in ChainIds |-> "stream"]
    /\ next_id' = [c \in ChainIds |-> 0]
    /\ contract_addresses' = [c \in ChainIds |-> {}]
    /\ contract_address' = [c \in ChainIds |-> NoRow]
    /\ batch' = [c \in ChainIds |-> {}]
    /\ done' = [c \in ChainIds |-> {}]
    /\ reorg_pc' = "load" /\ earliest' = {} /\ backtracked' = <<>>
    /\ UNCHANGED <<ingester, tables, side_effects>>

Next ==
    \/ \E r \in ContractAddresses, b \in BlockNumbers : IngestEvents(r, b)
    \/ \E c \in ChainIds : ReorgChain(c)
    \/ \E c \in ChainIds : HandleEvents(c)
    \/ HandleChainReorg
    \/ Crash

Spec == Init /\ [][Next]_vars

\* Each loop goes on for ever on its interval, unless it panics.
Fairness == (\A c \in ChainIds : WF_vars(HandleEvents(c))) /\ WF_vars(HandleChainReorg)

FairSpec == Spec /\ Fairness

-----------------------------------------------------------------------------
(* Properties *)

Rows == [row : ContractAddresses, handle_from : Nat, side_effects_from : Nat]

\* Every variable stays within its type; what is to be deleted is there.
TypeOK ==
    /\ fork \in [ChainIds -> [BlockNumbers -> Forks]]
    /\ ingested \in [ContractAddresses -> Nat]
    /\ events \subseteq Events
    /\ reorged_blocks \subseteq [id : 1..MaxReorgs, chain_id : ChainIds, block_number : BlockNumbers]
    /\ next_block_number_to_handle_from \in [ContractAddresses -> Nat]
    /\ next_block_number_for_side_effects \in [ContractAddresses -> Nat]
    /\ IsFiniteSet(reorged_blocks)
    /\ handled_reorged_blocks \subseteq 1..MaxReorgs
    /\ state_versions \in [Events -> Nat]
    /\ side_effects \in [Events -> Nat]
    /\ crashes \in Nat
    /\ pc \in [ChainIds -> {"stream", "txn"}]
    /\ next_id \in [ChainIds -> Nat]
    /\ contract_addresses \in [ChainIds -> SUBSET Rows]
    /\ contract_address \in [ChainIds -> Rows \cup {NoRow}]
    /\ \A c \in ChainIds : contract_address[c] \in IF pc[c] = "txn" THEN Rows ELSE {NoRow}
    /\ batch \in [ChainIds -> SUBSET Events]
    /\ done \in [ChainIds -> SUBSET Events]
    /\ \A c \in ChainIds : done[c] \subseteq batch[c]
    /\ reorg_pc \in {"load", "backtrack", "dead"}
    /\ earliest \subseteq reorged_blocks
    /\ DOMAIN backtracked \subseteq ChainIds
    /\ backtracked \in [DOMAIN backtracked -> [Events -> Nat]]
    /\ \A c \in DOMAIN backtracked : \A e \in Events : backtracked[c][e] <= state_versions[e]

\* Until the process dies: the side effects of a contract address happen in the order
\* of the chain, each once: none is repeated, and none is caught up on, when the
\* handlers are made to go back by a re-organization.
SideEffectsInOrder ==
    [][\A e \in Events : crashes = 0 /\ side_effects'[e] # side_effects[e] =>
          \A f \in Events : f.row = e.row /\ side_effects[f] > 0 => Precedes(f, e)]_vars

\* No side-effect handler is called twice for one event.
SideEffectsOnce == \A e \in Events : side_effects[e] <= 1

\* Why SideEffectsInOrder holds: until the process dies, a subtask works on
\* rows of its chain, each once per chunk, as only it moves their side-effect cursors
\* the loaded ones are fresh, and that cursor and the batches order what is done.
RowsOfChain ==
    \A c \in ChainIds :
        /\ \A a \in contract_addresses[c] : a.row.chain_id = c
        /\ pc[c] = "txn" => contract_address[c].row.chain_id = c

RowsStreamedOnce ==
    \A c \in ChainIds :
        /\ \A a, b \in contract_addresses[c] : a.row = b.row => a = b
        /\ pc[c] = "txn" => \A a \in contract_addresses[c] : a.row # contract_address[c].row

SideEffectCursorsFresh ==
    \A c \in ChainIds :
        /\ \A a \in contract_addresses[c] :
              a.side_effects_from = next_block_number_for_side_effects[a.row]
        /\ pc[c] = "txn" =>
              contract_address[c].side_effects_from =
                  next_block_number_for_side_effects[contract_address[c].row]

OneVersionStored ==
    \A e \in events : IsCanonical(e, fork[e.row.chain_id])

BatchesOrdered ==
    \A c \in ChainIds : pc[c] = "txn" =>
        /\ \A e \in batch[c] : e.row = contract_address[c].row
        /\ \A e, f \in batch[c] : e = f \/ Precedes(e, f) \/ Precedes(f, e)
        /\ \A e \in done[c], f \in batch[c] \ done[c] : Precedes(e, f)

SideEffectsBehindCursor ==
    \A e \in Events : side_effects[e] > 0 =>
        \/ e.block_number < next_block_number_for_side_effects[e.row]
        \/ \E c \in ChainIds : pc[c] = "txn" /\ e \in done[c]

SideEffectsInv ==
    /\ TypeOK /\ crashes = 0
    /\ RowsOfChain /\ RowsStreamedOnce /\ SideEffectCursorsFresh
    /\ OneVersionStored /\ BatchesOrdered /\ SideEffectsBehindCursor /\ SideEffectsOnce

\* Until the first re-organization: every event behind a row's cursor has been handled
\* exactly once, none at or past it has, whatever the ingester commits meanwhile and
\* wherever the process dies.
StatesMatchCursor ==
    reorged_blocks = {} =>
        \A e \in Events : WritesState(e) =>
            state_versions[e] =
                IF e \in events /\ e.block_number < next_block_number_to_handle_from[e.row]
                THEN 1 ELSE 0

\* LIMIT counts events: whether a batch ends with a block is up to what the blocks
\* contain.  None does that leaves events of its last block for a next batch.
BatchesEndWithBlocks ==
    reorged_blocks = {} =>
        \A c \in ChainIds : \A e \in batch[c] :
            \A f \in events : f.row = e.row /\ f.block_number = e.block_number => f \in batch[c]

\* Why StatesMatchCursor holds when they do: nobody else moves the cursor of a row at
\* work, it is not ahead of the ingester, which adds events past its own cursor only,
\* and a batch holds what is stored from the row's cursor to the batch's last block.
HandleCursorsFresh ==
    \A c \in ChainIds :
        /\ \A a \in contract_addresses[c] :
              a.handle_from = next_block_number_to_handle_from[a.row]
        /\ pc[c] = "txn" =>
              contract_address[c].handle_from =
                  next_block_number_to_handle_from[contract_address[c].row]

CursorsBehindIngester ==
    /\ \A r \in ContractAddresses : next_block_number_to_handle_from[r] <= ingested[r]
    /\ \A e \in events : e.block_number < ingested[e.row]

BatchesArePrefixes ==
    \A c \in ChainIds :
        IF pc[c] = "txn"
        THEN LET a == contract_address[c]
             IN  /\ batch[c] \subseteq StoredFrom(a.row, a.handle_from)
                 /\ \A e \in batch[c], f \in StoredFrom(a.row, a.handle_from) :
                       f.block_number < e.block_number => f \in batch[c]
        ELSE batch[c] = {}

BeforeReorgs ==
    /\ reorg_pc = "load" /\ RowsOfChain /\ RowsStreamedOnce /\ HandleCursorsFresh
    /\ CursorsBehindIngester /\ BatchesArePrefixes /\ StatesMatchCursor

StatesInv == TypeOK /\ (reorged_blocks = {} => BeforeReorgs)

\* Once no more blocks come, every stored event ends up handled, unless a
\* re-organization comes first.
EventuallyHandled ==
    <>[](\/ \A e \in events : WritesState(e) => state_versions[e] > 0
         \/ reorged_blocks # {})

\* Every recorded re-organization is handled in the end.
ReorgsEventuallyHandled == UnhandledReorgedBlocks # {} ~> UnhandledReorgedBlocks = {}

\* A re-organization that makes the handlers visit e again is still to be handled.
IsToBeRevisited(e) ==
    \E r \in UnhandledReorgedBlocks :
        r.chain_id = e.row.chain_id /\ r.block_number <= e.block_number

\* A state version of an event that a re-organization removed is deleted with it:
\* none outlives the handling of that re-organization.
OrphansAreBacktracked ==
    \A e \in Events : state_versions[e] > 0 /\ e \notin events => IsToBeRevisited(e)

\* An event behind its row's cursor has been handled, or a re-organization that
\* will bring the cursor back to it is still to be handled.
NoEventSkipped ==
    \A e \in events :
        /\ WritesState(e)
        /\ e.block_number < next_block_number_to_handle_from[e.row]
        => state_versions[e] > 0 \/ IsToBeRevisited(e)
=============================================================================
