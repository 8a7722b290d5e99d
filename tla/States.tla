------------------------------- MODULE States -------------------------------
(***************************************************************************)
(* The states pure handlers keep (states.rs and states/): each create,     *)
(* update and delete appends a version to the table of versions and        *)
(* replaces the row of its group in the table of views, which handlers     *)
(* read.  Contract and chain states change within the transaction of the   *)
(* batch; a multi-chain state is created there, and its updates and        *)
(* deletes are deferred: the re-organization loop applies them later,      *)
(* statement by statement, outside any transaction.  A re-organization     *)
(* deletes versions and rebuilds the views of their groups.                *)
(*                                                                         *)
(* Transactions are those of the database's default isolation level, READ  *)
(* COMMITTED: a statement sees what was committed when it began.  A DELETE *)
(* that meets a row another open transaction has deleted waits for the end *)
(* of that transaction, and never sees the row it put in its place.        *)
(*                                                                         *)
(* A row of a state table is reduced to its key and a count of the events  *)
(* that were applied to it; `applied' records which, and no code reads it. *)
(*                                                                         *)
(* A definition Foo_Slip is what a slip in the code would make of Foo; it  *)
(* takes the place of Foo to confirm that the properties can tell.         *)
(***************************************************************************)
EXTENDS ChainReorg, Sequences, FiniteSets, SequencesExt

CONSTANTS
    ChainIds,           \* each handled by a subtask of its own
    ContractAddresses,  \* rows: [chain_id, address, start_block_number]
    Events,             \* [row, table, key, op, block_number, transaction_hash, log_index,
                        \* fork]; a transaction may be in several forks
    StateTables,        \* states::get_all_table_names
    KindOf,             \* "ContractState", "ChainState" or "MultiChainState", per table
    MaxBlockNumber,
    MaxReorgs,          \* re-organizations, over all chains
    MaxCrashes,
    MaxPrunes           \* prunings of versions, over all chains

BlockNumbers == 0..MaxBlockNumber
Loop == "loop"
Tasks == ChainIds \cup {Loop}

ASSUME StatesAssumption ==
    /\ Loop \notin ChainIds
    /\ \A e \in Events :
          /\ e.row \in ContractAddresses /\ e.row.chain_id \in ChainIds
          /\ e.table \in StateTables /\ e.op \in {"transfer", "burn"}
          /\ e.block_number \in BlockNumbers /\ e.log_index \in Nat /\ e.fork \in 0..MaxReorgs
    /\ KindOf \in [StateTables -> {"ContractState", "ChainState", "MultiChainState"}]

ASSUME StateBoundsAssumption ==
    /\ IsFiniteSet(ChainIds) /\ IsFiniteSet(Events)
    /\ {MaxBlockNumber, MaxReorgs, MaxCrashes, MaxPrunes} \subseteq Nat

\* chaindexing_contract_addresses has a unique index; a chain numbers the logs of a block.
ASSUME UniqueRowsAssumption ==
    /\ \A r \in ContractAddresses : r.chain_id \in ChainIds /\ r.start_block_number \in Nat
    /\ \A r, q \in ContractAddresses : r.chain_id = q.chain_id /\ r.address = q.address => r = q
    /\ \A e, f \in Events :
          /\ e.row.chain_id = f.row.chain_id /\ e.fork = f.fork
          /\ e.block_number = f.block_number /\ e.log_index = f.log_index
          => e = f

\* The ingester fetches no logs of a contract from below its start block.
ASSUME FromStartAssumption ==
    \A e \in Events : e.row.start_block_number <= e.block_number

-----------------------------------------------------------------------------
VARIABLES
    \* --- what the ingester commits (external)
    fork,            \* per chain and block, which of its versions is canonical
    reorged_blocks,  \* rows of chaindexing_reorged_blocks: [id, chain_id, block_number]
    prunes, crashes, \* how many there have been

    \* --- tables, as committed
    handled_reorged_blocks,
    next_block_number_to_handle_from,
    versions,        \* [view, is_deleted], over all tables of state versions
    views,           \* [table, group, key, count, applied, event], over all tables of views

    \* --- per task: the open transaction, and the statement being executed
    txn,             \* what it has [appended, dropped] of versions, [inserted, deleted] of views
    targets,         \* rows a DELETE of the task is to delete
    refreshing,      \* versions whose group it is to refresh, in this order
    pc,

    \* --- locals of the subtasks
    streamed,        \* rows of the chunk still to do: [row, from]
    batch,           \* the events loaded for a row
    at,              \* position in the batch of the event to handle next
    held,            \* the state read

    \* --- locals of the loop
    deferred,        \* DeferredFutures: mutations in the order they were added
    earliest,        \* the reorged blocks of this round, one per chain
    backtracking,    \* <<reorged block, table>> still to do
    groups           \* the groups of the versions just dropped

ingester == <<fork, reorged_blocks, prunes>>
tables == <<handled_reorged_blocks, next_block_number_to_handle_from, versions, views>>
execution == <<txn, targets, refreshing>>
subtasks == <<streamed, batch, at, held>>
loop == <<earliest, backtracking, groups>>
vars == <<ingester, crashes, tables, execution, pc, subtasks, deferred, loop>>

None == [none |-> TRUE]
EmptyTxn == [appended |-> {}, dropped |-> {}, inserted |-> {}, deleted |-> {}]

-----------------------------------------------------------------------------
(* What a task sees *)

VisibleVersions(t) == (versions \ txn[t].dropped) \cup txn[t].appended
VisibleViews(t) == (views \ txn[t].deleted) \cup txn[t].inserted

IsOfContract(v, e) == v.event.row.chain_id = e.row.chain_id /\ v.event.row.address = e.row.address
IsOfChain(v, e) == v.event.row.chain_id = e.row.chain_id

\* Filters::get, the handler having chosen the context that fits the state
IsInContext(v, e) ==
    CASE KindOf[e.table] = "ContractState"   -> IsOfContract(v, e)
      [] KindOf[e.table] = "ChainState"      -> IsOfChain(v, e)
      [] KindOf[e.table] = "MultiChainState" -> TRUE

\* read_many, with a filter on the key
ReadMany(t, e) ==
    {v \in VisibleViews(t) : v.table = e.table /\ v.key = e.key /\ IsInContext(v, e)}

\* get_complete: the row is looked up again by the user's fields, for a contract
\* state also by chain and address.  A ChainState works out the chain and then
\* passes the view without it.
Complete(t, state, e) ==
    {v \in VisibleViews(t) :
        /\ v.table = state.table /\ v.key = state.key /\ v.count = state.count
        /\ KindOf[v.table] = "ContractState" => IsOfContract(v, e)}

-----------------------------------------------------------------------------
(* State versions *)

ViewsInUse ==
    UNION {
        {v.view : v \in versions \cup UNION {txn[t].appended \cup ToSet(refreshing[t]) : t \in Tasks}},
        views, UNION {txn[t].inserted : t \in Tasks},
        {deferred[i].state : i \in DOMAIN deferred},
        {held[c] : c \in {d \in ChainIds : held[d] # None}}}

GroupsInUse == groups \cup {v.group : v \in ViewsInUse}

\* uuid::Uuid::new_v4
NewGroup == CHOOSE g \in 1..(Cardinality(GroupsInUse) + 1) : g \notin GroupsInUse

CreatedVersion(e) ==
    [view |-> [table |-> e.table, group |-> NewGroup, key |-> e.key, count |-> 1,
               applied |-> {e}, event |-> e],
     is_deleted |-> FALSE]

\* StateVersion::update and delete: the complete view, the updates, and the part
\* extracted from the event.
NextVersion(state, e) ==
    IF e.op = "burn"
    THEN [view |-> [state EXCEPT !.event = e], is_deleted |-> TRUE]
    ELSE [view |-> [state EXCEPT !.event = e, !.count = @ + 1, !.applied = @ \cup {e}],
          is_deleted |-> FALSE]

\* The unique index of a table of versions: the user's fields, and the chain, the
\* block number, the transaction and the log index.
IndexedFields(v) ==
    <<v.table, v.key, v.count, v.event.row.chain_id, v.event.block_number,
      v.event.transaction_hash, v.event.log_index>>

ViolatesUniqueIndex(t, version) ==
    \E w \in VisibleVersions(t) : IndexedFields(w.view) = IndexedFields(version.view)

VersionsFrom_AnyChain(chain_id, block_number) ==
    {v \in VisibleVersions(Loop) : v.view.event.block_number >= block_number}

\* StateVersions::get
VersionsFrom(chain_id, block_number) ==
    {v \in VisibleVersions(Loop) :
        v.view.event.row.chain_id = chain_id /\ v.view.event.block_number >= block_number}

\* StateVersions::get_latest: DISTINCT ON the group, ordered by block number and then
\* by log index descending, keeps a version of the group's lowest block number.
IsSelectedBefore(v, w) ==
    \/ v.view.event.block_number < w.view.event.block_number
    \/ /\ v.view.event.block_number = w.view.event.block_number
       /\ v.view.event.log_index > w.view.event.log_index

IsLatest(v) ==
    /\ v \in VisibleVersions(Loop) /\ v.view.group \in groups
    /\ \A w \in VisibleVersions(Loop) : w.view.group = v.view.group => ~ IsSelectedBefore(w, v)

-----------------------------------------------------------------------------
(* Statements and transactions *)

Put(f, t, x) == [f EXCEPT ![t] = x]

\* The transaction of t is committed; a DELETE that waits for it finds gone what
\* it has deleted.
Commit(t) ==
    /\ versions' = (versions \ txn[t].dropped) \cup txn[t].appended
    /\ views' = (views \ txn[t].deleted) \cup txn[t].inserted
    /\ targets' = [u \in Tasks |-> targets[u] \ txn[t].deleted]
    /\ txn' = Put(txn, t, EmptyTxn)

\* An assertion, an unwrap or a statement fails: the task ends, and with it its
\* transaction.
Panic(t) ==
    /\ pc' = Put(pc, t, "dead")
    /\ txn' = Put(txn, t, EmptyTxn)
    /\ targets' = Put(targets, t, {})
    /\ refreshing' = Put(refreshing, t, <<>>)

\* StateVersion::append within the transaction of t, a refresh to follow
AppendVersion(t, version) ==
    IF ViolatesUniqueIndex(t, version)
    THEN Panic(t)
    ELSE /\ txn' = [txn EXCEPT ![t].appended = @ \cup {version}]
         /\ refreshing' = Put(refreshing, t, <<version>>)
         /\ pc' = Put(pc, t, "refresh")
         /\ UNCHANGED targets

IsLocked(t, rows) == \E u \in Tasks \ {t} : rows \cap txn[u].deleted # {}

NewViews_DeletedToo(version) == {version.view}

NewViews(version) == IF version.is_deleted THEN {} ELSE {version.view}

RefreshedTxn_Keeping(t, found) ==
    [txn EXCEPT ![t].inserted = @ \cup NewViews(Head(refreshing[t]))]

RefreshedTxn(t, found) ==
    [txn EXCEPT ![t].deleted  = @ \cup (found \cap views),
                ![t].inserted = (@ \ found) \cup NewViews(Head(refreshing[t]))]

AfterRefresh_FirstGroup(t) == IF t # Loop THEN "handle" ELSE "backtrack"

AfterRefresh(t) ==
    IF t # Loop THEN "handle" ELSE IF Len(refreshing[t]) = 1 THEN "backtrack" ELSE "refresh"

\* The DELETE, and the INSERT unless the version is a deletion, of the rows found.
FinishRefresh(t, found) ==
    /\ txn' = RefreshedTxn(t, found)
    /\ refreshing' = Put(refreshing, t, Tail(refreshing[t]))
    /\ targets' = Put(targets, t, {})
    /\ pc' = Put(pc, t, AfterRefresh(t))

\* StateView::refresh, within the transaction of t.  The rows are those visible
\* when the DELETE begins; it may have to wait for one of them.
RefreshView(t) ==
    /\ pc[t] = "refresh"
    /\ LET found == {v \in VisibleViews(t) : v.group = Head(refreshing[t]).view.group}
       IN  IF IsLocked(t, found)
           THEN /\ targets' = Put(targets, t, found)
                /\ pc' = Put(pc, t, "waiting")
                /\ UNCHANGED <<txn, refreshing>>
           ELSE FinishRefresh(t, found)
    /\ UNCHANGED <<ingester, crashes, tables, subtasks, deferred, loop>>

ResumeRefresh(t) ==
    /\ pc[t] = "waiting"
    /\ ~ IsLocked(t, targets[t])
    /\ FinishRefresh(t, targets[t])
    /\ UNCHANGED <<ingester, crashes, tables, subtasks, deferred, loop>>

WaitsFor(t, u) == t # u /\ pc[t] = "waiting" /\ targets[t] \cap txn[u].deleted # {}

\* The database fails a statement of one of the transactions that wait for each other.
AbortDeadlocked ==
    /\ \E waiting \in SUBSET Tasks \ {{}} :
          /\ \A t \in waiting : \E u \in waiting : WaitsFor(t, u)
          /\ \E t, u \in waiting : WaitsFor(u, t) /\ Panic(t)
    /\ UNCHANGED <<ingester, crashes, tables, subtasks, deferred, loop>>

-----------------------------------------------------------------------------
Init ==
    /\ fork = [c \in ChainIds |-> [b \in BlockNumbers |-> 0]]
    /\ reorged_blocks = {} /\ handled_reorged_blocks = {}
    /\ prunes = 0 /\ crashes = 0
    /\ next_block_number_to_handle_from = [r \in ContractAddresses |-> r.start_block_number]
    /\ versions = {} /\ views = {}
    /\ txn = [t \in Tasks |-> EmptyTxn]
    /\ targets = [t \in Tasks |-> {}]
    /\ refreshing = [t \in Tasks |-> <<>>]
    /\ pc = [t \in Tasks |-> IF t = Loop THEN "load" ELSE "stream"]
    /\ streamed = [c \in ChainIds |-> {}]
    /\ batch = [c \in ChainIds |-> <<>>] /\ at = [c \in ChainIds |-> 1]
    /\ held = [c \in ChainIds |-> None]
    /\ deferred = <<>> /\ earliest = {} /\ backtracking = {} /\ groups = {}

-----------------------------------------------------------------------------
(* The ingester, which has stored the events of every block, and crashes *)

IsStored(e) == fork[e.row.chain_id][e.block_number] = e.fork

ReorgChain(c) ==
    /\ Cardinality(reorged_blocks) < MaxReorgs
    /\ \E from \in BlockNumbers :
          LET id == Cardinality(reorged_blocks) + 1
              changed == {e \in Events : /\ e.row.chain_id = c /\ e.block_number >= from
                                         /\ IsStored(e) \/ e.fork = id}
          IN  /\ \E e \in changed : e.block_number = from
              /\ fork' = [fork EXCEPT ![c] = [b \in BlockNumbers |-> IF b >= from THEN id ELSE @[b]]]
              /\ reorged_blocks' = reorged_blocks \cup
                    {[id |-> id, chain_id |-> c, block_number |-> from]}
    /\ UNCHANGED <<prunes, crashes, tables, execution, pc, subtasks, deferred, loop>>

\* states::prune_state_versions, by the ingester, when it prunes events
PruneStateVersions(c) ==
    /\ prunes < MaxPrunes
    /\ \E min_block_number \in BlockNumbers :
          versions' = {v \in versions : ~ (v.view.event.block_number < min_block_number
                                           /\ v.view.event.row.chain_id = c)}
    /\ prunes' = prunes + 1
    /\ UNCHANGED <<fork, reorged_blocks, crashes, handled_reorged_blocks, views,
                   next_block_number_to_handle_from, execution, pc, subtasks, deferred, loop>>

\* Open transactions are rolled back, deferred mutations are gone.
Crash ==
    /\ crashes < MaxCrashes
    /\ crashes' = crashes + 1
    /\ txn' = [t \in Tasks |-> EmptyTxn]
    /\ targets' = [t \in Tasks |-> {}]
    /\ refreshing' = [t \in Tasks |-> <<>>]
    /\ pc' = [t \in Tasks |-> IF t = Loop THEN "load" ELSE "stream"]
    /\ streamed' = [c \in ChainIds |-> {}]
    /\ batch' = [c \in ChainIds |-> <<>>] /\ at' = [c \in ChainIds |-> 1]
    /\ held' = [c \in ChainIds |-> None]
    /\ deferred' = <<>> /\ earliest' = {} /\ groups' = {} /\ backtracking' = {}
    /\ UNCHANGED <<ingester, tables>>

-----------------------------------------------------------------------------
(* The subtask of a chain: handle_events::run with the handlers of the user *)

Precedes(e, f) ==
    \/ e.block_number < f.block_number
    \/ e.block_number = f.block_number /\ e.log_index < f.log_index

\* load_events
LoadEvents(r, from) ==
    LET stored == {e \in Events : e.row = r /\ IsStored(e) /\ e.block_number >= from}
        Rank(e) == Cardinality({f \in stored : Precedes(f, e)}) + 1
    IN  [i \in 1..Smaller(BlocksPerBatch, Cardinality(stored)) |->
            CHOOSE e \in stored : Rank(e) = i]

StreamContractAddresses(c) ==
    /\ pc[c] = "stream"
    /\ streamed[c] = {}
    /\ streamed' = Put(streamed, c,
          {[row |-> r, from |-> next_block_number_to_handle_from[r]] :
              r \in {q \in ContractAddresses : q.chain_id = c}})
    /\ UNCHANGED <<ingester, crashes, tables, execution, pc, batch, at, held, deferred, loop>>

\* load_events for the next row, then its transaction begins.
BeginTransaction(c) ==
    /\ pc[c] = "stream"
    /\ \E a \in streamed[c] :
          /\ streamed' = Put(streamed, c, streamed[c] \ {a})
          /\ batch' = Put(batch, c, LoadEvents(a.row, a.from))
    /\ at' = Put(at, c, 1)
    /\ pc' = Put(pc, c, "handle")
    /\ UNCHANGED <<ingester, crashes, tables, execution, held, deferred, loop>>

event(c) == batch[c][at[c]]

\* The handler reads the state of the event's key (read_one: the first of the rows)
\* and, if there is none, creates it.
ReadOne(c) ==
    /\ pc[c] = "handle"
    /\ at[c] <= Len(batch[c])
    /\ LET found == ReadMany(c, event(c))
       IN  \/ /\ \E state \in found : held' = Put(held, c, state)
              /\ pc' = Put(pc, c, "mutate")
              /\ UNCHANGED <<execution, at>>
           \/ /\ found = {} /\ event(c).op = "transfer"
              /\ AppendVersion(c, CreatedVersion(event(c)))
              /\ at' = Put(at, c, at[c] + 1)
              /\ UNCHANGED held
           \/ /\ found = {} /\ event(c).op = "burn"
              /\ at' = Put(at, c, at[c] + 1)
              /\ UNCHANGED <<held, execution, pc>>
    /\ UNCHANGED <<ingester, crashes, tables, streamed, batch, deferred, loop>>

\* update or delete, up to the version appended or, for a multi-chain state, the
\* future to be added.
Mutate(c) ==
    /\ pc[c] = "mutate"
    /\ LET complete == Complete(c, held[c], event(c))
           is_multi_chain == KindOf[event(c).table] = "MultiChainState"
       IN  \/ /\ Cardinality(complete) # 1
              /\ Panic(c)
              /\ UNCHANGED <<at, held>>
           \/ /\ Cardinality(complete) = 1 /\ ~ is_multi_chain
              /\ \E state \in complete : AppendVersion(c, NextVersion(state, event(c)))
              /\ at' = Put(at, c, at[c] + 1)
              /\ held' = Put(held, c, None)
           \/ /\ Cardinality(complete) = 1 /\ is_multi_chain
              /\ \E state \in complete : held' = Put(held, c, state)
              /\ pc' = Put(pc, c, "defer")
              /\ UNCHANGED <<execution, at>>
    /\ UNCHANGED <<ingester, crashes, tables, streamed, batch, deferred, loop>>

IsConsuming == pc[Loop] \in {"consume", "delete", "insert"}

\* DeferredFutures::add, which waits while consume holds the lock
AddDeferred(c) ==
    /\ pc[c] = "defer"
    /\ ~ IsConsuming
    /\ deferred' = Append(deferred, [state |-> held[c], event |-> event(c)])
    /\ at' = Put(at, c, at[c] + 1)
    /\ held' = Put(held, c, None)
    /\ pc' = Put(pc, c, "handle")
    /\ UNCHANGED <<ingester, crashes, tables, execution, streamed, batch, loop>>

CursorAfter(c) == Last(batch[c]).block_number + 1

CommitTransaction(c) ==
    /\ pc[c] = "handle"
    /\ at[c] > Len(batch[c])
    /\ Commit(c)
    /\ next_block_number_to_handle_from' =
          IF batch[c] = <<>> THEN next_block_number_to_handle_from
          ELSE Put(next_block_number_to_handle_from, Last(batch[c]).row, CursorAfter(c))
    /\ pc' = Put(pc, c, "stream")
    /\ batch' = Put(batch, c, <<>>) /\ at' = Put(at, c, 1)
    /\ UNCHANGED <<ingester, crashes, handled_reorged_blocks, refreshing, streamed, held,
                   deferred, loop>>

HandleEvents(c) ==
    \/ StreamContractAddresses(c)
    \/ BeginTransaction(c)
    \/ ReadOne(c)
    \/ Mutate(c)
    \/ AddDeferred(c)
    \/ RefreshView(c)
    \/ ResumeRefresh(c)
    \/ CommitTransaction(c)

-----------------------------------------------------------------------------
(* The loop: maybe_handle_chain_reorg::run, then the deferred mutations *)

UnhandledReorgedBlocks == {r \in reorged_blocks : r.id \notin handled_reorged_blocks}

HasDeferred_Several == Len(deferred) > 1

HasDeferred == deferred # <<>>

LoadReorgedBlocks ==
    /\ pc[Loop] = "load"
    /\ IF UnhandledReorgedBlocks = {}
       THEN /\ HasDeferred
            /\ pc' = Put(pc, Loop, "consume")
            /\ UNCHANGED loop
       ELSE /\ earliest' \in OnlyEarliestPerChain(UnhandledReorgedBlocks)
            /\ backtracking' = earliest' \X StateTables
            /\ pc' = Put(pc, Loop, "backtrack")
            /\ UNCHANGED groups
    /\ UNCHANGED <<ingester, crashes, tables, execution, subtasks, deferred>>

\* backtrack_states, for the next chain and table: the versions are deleted by their
\* ids; a table without any makes the statement end in `IN ()', which fails.
BacktrackStates ==
    /\ pc[Loop] = "backtrack"
    /\ \E job \in backtracking :
          LET found == {v \in VersionsFrom(job[1].chain_id, job[1].block_number) :
                           v.view.table = job[2]}
          IN  /\ backtracking' = backtracking \ {job}
              /\ IF found = {}
                 THEN Panic(Loop) /\ UNCHANGED groups
                 ELSE /\ txn' = [txn EXCEPT ![Loop].dropped = @ \cup found]
                      /\ groups' = {v.view.group : v \in found}
                      /\ pc' = Put(pc, Loop, "latest")
                      /\ UNCHANGED <<targets, refreshing>>
    /\ UNCHANGED <<ingester, crashes, tables, subtasks, deferred, earliest>>

\* StateViews::refresh, up to the first view.  The order of the groups is that of
\* their uuids.
GetLatestVersions ==
    /\ pc[Loop] = "latest"
    /\ \E latest \in SUBSET {v \in VisibleVersions(Loop) : IsLatest(v)} :
          /\ \A g \in groups : (\E v \in VisibleVersions(Loop) : v.view.group = g)
                               => \E v \in latest : v.view.group = g
          /\ \A v, w \in latest : v.view.group = w.view.group => v = w
          /\ \E order \in SetToSeqs(latest) : refreshing' = Put(refreshing, Loop, order)
          /\ pc' = Put(pc, Loop, IF latest = {} THEN "backtrack" ELSE "refresh")
    /\ groups' = {}
    /\ UNCHANGED <<ingester, crashes, tables, txn, targets, subtasks, deferred, earliest,
                   backtracking>>

\* The cursors of the chains are moved, the rows marked handled: one commit.
CommitReorg ==
    /\ pc[Loop] = "backtrack"
    /\ backtracking = {}
    /\ Commit(Loop)
    /\ next_block_number_to_handle_from' =
          [r \in ContractAddresses |->
              IF \E b \in earliest : b.chain_id = r.chain_id
              THEN (CHOOSE b \in earliest : b.chain_id = r.chain_id).block_number
              ELSE next_block_number_to_handle_from[r]]
    /\ handled_reorged_blocks' = handled_reorged_blocks \cup {b.id : b \in earliest}
    /\ pc' = Put(pc, Loop, "consume")
    /\ earliest' = {}
    /\ UNCHANGED <<ingester, crashes, refreshing, subtasks, deferred, backtracking, groups>>

Mutation == Head(deferred)
Remaining_None == <<>>
Remaining == Tail(deferred)
DeferredVersion == NextVersion(Mutation.state, Mutation.event)

\* consume runs the futures in the order they were added, for they share a client.
\* First append_without_txn ...
ConsumeDeferred ==
    /\ pc[Loop] = "consume"
    /\ HasDeferred
    /\ IF ViolatesUniqueIndex(Loop, DeferredVersion)
       THEN Panic(Loop) /\ UNCHANGED versions
       ELSE /\ versions' = versions \cup {DeferredVersion}
            /\ pc' = Put(pc, Loop, "delete")
            /\ UNCHANGED execution
    /\ UNCHANGED <<ingester, crashes, handled_reorged_blocks, next_block_number_to_handle_from,
                   views, subtasks, deferred, loop>>

\* ... then delete_without_txn, which waits for nobody, as transactions delete no
\* views of multi-chain states but the loop's own ...
DeleteWithoutTxn ==
    /\ pc[Loop] = "delete"
    /\ views' = {v \in views : v.group # Mutation.state.group}
    /\ pc' = Put(pc, Loop, "insert")
    /\ UNCHANGED <<ingester, crashes, handled_reorged_blocks, next_block_number_to_handle_from,
                   versions, execution, subtasks, deferred, loop>>

\* ... then create_without_txn, unless the version is a deletion.
CreateWithoutTxn ==
    /\ pc[Loop] = "insert"
    /\ views' = views \cup NewViews(DeferredVersion)
    /\ deferred' = Remaining
    /\ pc' = Put(pc, Loop, "consume")
    /\ UNCHANGED <<ingester, crashes, handled_reorged_blocks, next_block_number_to_handle_from,
                   versions, execution, subtasks, loop>>

EndRound ==
    /\ pc[Loop] = "consume"
    /\ ~ HasDeferred
    /\ pc' = Put(pc, Loop, "load")
    /\ UNCHANGED <<ingester, crashes, tables, execution, subtasks, deferred, loop>>

HandleReorgsAndDeferred ==
    \/ LoadReorgedBlocks
    \/ BacktrackStates
    \/ GetLatestVersions
    \/ RefreshView(Loop)
    \/ ResumeRefresh(Loop)
    \/ CommitReorg
    \/ ConsumeDeferred
    \/ DeleteWithoutTxn
    \/ CreateWithoutTxn
    \/ EndRound

Next ==
    \/ \E c \in ChainIds : ReorgChain(c) \/ PruneStateVersions(c)
    \/ Crash
    \/ \E c \in ChainIds : HandleEvents(c)
    \/ HandleReorgsAndDeferred
    \/ AbortDeadlocked

Spec == Init /\ [][Next]_vars

\* Each task loops for ever on its interval, until it panics; the database resolves
\* a deadlock.
Fairness ==
    /\ \A c \in ChainIds : WF_vars(HandleEvents(c))
    /\ WF_vars(HandleReorgsAndDeferred)
    /\ WF_vars(AbortDeadlocked)

FairSpec == Spec /\ Fairness

-----------------------------------------------------------------------------
(* Properties *)

TypedViews == [table : StateTables, group : Nat, key : {e.key : e \in Events}, count : Nat,
               applied : SUBSET Events, event : Events]
TypedVersions == [view : TypedViews, is_deleted : BOOLEAN]

\* Every variable stays within its type, and a task has an open transaction only
\* while it is within one.
TypeOK ==
    /\ fork \in [ChainIds -> [BlockNumbers -> 0..MaxReorgs]]
    /\ \A r \in reorged_blocks : r.id \in 1..MaxReorgs /\ r.chain_id \in ChainIds
    /\ next_block_number_to_handle_from \in [ContractAddresses -> Nat]
    /\ \A v \in versions : v \in TypedVersions
    /\ \A v \in views : v \in TypedViews
    /\ \A t \in Tasks :
          /\ pc[t] \in IF t = Loop
                THEN {"load", "backtrack", "latest", "refresh", "waiting", "consume", "delete", "insert",
                      "dead"}
                ELSE {"stream", "handle", "mutate", "defer", "refresh", "waiting", "dead"}
          /\ pc[t] \in {"stream", "load", "consume", "delete", "insert", "dead"} => txn[t] = EmptyTxn
          /\ refreshing[t] # <<>> <=> pc[t] \in {"refresh", "waiting"}
          /\ targets[t] # {} => pc[t] = "waiting"
    /\ \A c \in ChainIds : held[c] # None => pc[c] \in {"mutate", "defer", "dead"}
    /\ \A i \in DOMAIN deferred : KindOf[deferred[i].event.table] = "MultiChainState"

Handled(r) ==
    {e \in Events : e.row = r /\ IsStored(e) /\ e.block_number < next_block_number_to_handle_from[r]}

\* The transfers to a key since it was last burnt, among events of a contract.
Counted(events, table, key) ==
    LET of_key == {e \in events : e.table = table /\ e.key = key} IN
    {e \in of_key : e.op = "transfer"
                    /\ \A f \in of_key : f.op = "burn" => Precedes(f, e)}

Keys == {e.key : e \in Events}

\* The tables where a key is r's alone: of contract states, and of chain states that
\* no other contract of the chain writes to.
OwnTables(r) ==
    {table \in StateTables :
        \/ KindOf[table] = "ContractState"
        \/ KindOf[table] = "ChainState"
           /\ \A e \in Events : e.table = table /\ e.row.chain_id = r.chain_id => e.row = r}

\* Until the first re-organization: what handlers and users read of a contract or
\* chain state is one row per key, made of each event behind the contract's cursor
\* once, and there is none where there is nothing to keep: whatever other contracts
\* and chains do, wherever the process dies, however far the versions were pruned.  It
\* is proved where BatchesEndWithBlocks.
ViewsMatchHandled ==
    reorged_blocks = {} =>
        \A r \in ContractAddresses, key \in Keys : \A table \in OwnTables(r) :
            LET counted == Counted(Handled(r), table, key)
                rows == {v \in views : v.table = table /\ v.key = key /\ v.event.row = r}
            IN  IF counted = {} THEN rows = {}
                ELSE \E v \in rows : rows = {v} /\ v.applied = counted

\* Until the process dies or a chain re-organizes: each transfer behind the cursor has
\* its version of the multi-chain state, or the mutation is still queued, or one before
\* it made the loop panic: none is lost between the transaction that deferred it and the
\* loop that applies it.
DeferredMutationsKept ==
    /\ reorged_blocks = {} /\ crashes = 0 /\ prunes = 0 /\ pc[Loop] # "dead"
    => \A r \in ContractAddresses : \A e \in Handled(r) :
          KindOf[e.table] = "MultiChainState" /\ e.op = "transfer" =>
              \/ \E v \in versions : v.view.event = e
              \/ \E i \in DOMAIN deferred : deferred[i].event = e

\* Handling a re-organization takes versions from the chains concerned only, none
\* below the block recorded, and leaves the views of contract and chain states on the
\* other chains as they are.  This is for at most one re-organization, or where no two
\* chains have a chain state of the same key: a ChainState is completed without its
\* chain (to_complete_view in chain_state.rs), so that an update on one chain may take
\* over the group of another, and a later re-organization of the one rebuild it.
ReorgsStayOnChain ==
    [][pc[Loop] = "backtrack" /\ pc'[Loop] = "consume" =>
          /\ \A v \in versions \ versions' : \E b \in earliest :
                b.chain_id = v.view.event.row.chain_id /\ b.block_number <= v.view.event.block_number
          /\ \A v \in (views \ views') \cup (views' \ views) :
                KindOf[v.table] # "MultiChainState" =>
                    \E b \in earliest : b.chain_id = v.event.row.chain_id]_vars

\* LIMIT counts events: no batch leaves events of its last block for a next one, which
\* starts past that block.
BatchesEndWithBlocks ==
    reorged_blocks = {} =>
        \A c \in ChainIds : \A e \in ToSet(batch[c]) : \A f \in Events :
            f.row = e.row /\ IsStored(f) /\ f.block_number = e.block_number => f \in ToSet(batch[c])

\* Deferred mutations are applied in the end, unless the process dies first or a
\* failed statement ends the loop.
DeferredEventuallyApplied ==
    deferred # <<>> ~> (deferred = <<>> \/ pc[Loop] = "dead")

NoOpenTransaction == \A t \in Tasks : pc[t] \in {"stream", "load", "dead"}

IsNewest(v) ==
    /\ v \in versions
    /\ \A w \in versions : w.view.group = v.view.group => ~ Precedes(v.view.event, w.view.event)

\* The view of a group that has versions is the newest of them, after a
\* re-organization too.
ViewIsNewestVersion ==
    NoOpenTransaction =>
        \A v \in versions : IsNewest(v) =>
            {w \in views : w.group = v.view.group} = NewViews(v)

\* Once nothing is deferred or under way, and nothing died or re-organized, each
\* transfer handled counts in a multi-chain state.
MultiChainStateCountsAll ==
    /\ NoOpenTransaction /\ deferred = <<>> /\ crashes = 0 /\ reorged_blocks = {}
    => \A r \in ContractAddresses : \A e \in Handled(r) :
          KindOf[e.table] = "MultiChainState" =>
              \E v \in views : v.table = e.table /\ e \in v.applied
=============================================================================
