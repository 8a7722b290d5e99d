----------------------------- MODULE PruneClock -----------------------------
(***************************************************************************)
(* When an ingester subtask prunes (ingester::maybe_prune): at the end of  *)
(* its pass over a chain, if prune_interval seconds have gone by since     *)
(* last_pruned_at, which the end of every pass sets to the current time.   *)
(* What a prune deletes from the events is Ingester's matter, and from the *)
(* versions States'; here a table is the block number of its oldest row,   *)
(* and time advances by seconds.                                           *)
(***************************************************************************)
EXTENDS Integers, Sequences

CONSTANTS
    ChainsInOrder,      \* the chunk of the subtask
    StateTables,        \* tables of state versions, in the order they are pruned
    IngestionRate,      \* seconds from one round over the chunk to the next
    PruneInterval,
    PruneNBlocksAway,
    MaxBlockNumber,     \* height at which the chains stop growing
    MaxCrashes

ChainIds == {ChainsInOrder[i] : i \in DOMAIN ChainsInOrder}
Tables == <<"events">> \o StateTables
TableNames == {Tables[i] : i \in DOMAIN Tables}

VARIABLES
    height,             \* per chain; every block of it is ingested and handled
    oldest,             \* per table and chain, the oldest block it has rows of
    timer,              \* seconds to the next round
    chain_at,           \* position in the chunk, 0 between two rounds
    current_block_number, \* the height the pass began with
    statements,         \* tables the prune under way has still to delete from
    last_pruned_age,    \* per chain, seconds since last_pruned_at, or no entry
    crashes

vars == <<height, oldest, timer, chain_at, current_block_number, statements, last_pruned_age,
          crashes>>

NoEntry == -1
chain == ChainsInOrder[chain_at]

\* PruningConfig::get_min_block_number
GetMinBlockNumber(current) ==
    IF current < PruneNBlocksAway THEN current ELSE current - PruneNBlocksAway

Init ==
    /\ height = [c \in ChainIds |-> 1]
    /\ oldest = [table \in TableNames |-> [c \in ChainIds |-> 1]]
    /\ timer = 0 /\ chain_at = 0 /\ current_block_number = 0 /\ statements = <<>> /\ crashes = 0
    /\ last_pruned_age = [c \in ChainIds |-> NoEntry]

MineBlock(c) ==
    /\ height[c] < MaxBlockNumber
    /\ height' = [height EXCEPT ![c] = @ + 1]
    /\ UNCHANGED <<oldest, timer, chain_at, current_block_number, statements, last_pruned_age,
                   crashes>>

\* A second between two rounds; a round takes less than one.
PassSecond ==
    /\ chain_at = 0 /\ timer > 0
    /\ timer' = timer - 1
    /\ last_pruned_age' = [c \in ChainIds |->
          IF last_pruned_age[c] \in 0..(PruneInterval - 1) THEN last_pruned_age[c] + 1
          ELSE last_pruned_age[c]]
    /\ UNCHANGED <<height, oldest, chain_at, current_block_number, statements, crashes>>

\* What maybe_prune is to do: with no entry for the chain, the difference is 0.
Due(c) == IF last_pruned_age[c] >= PruneInterval THEN Tables ELSE <<>>

\* The pass over the next chain begins: fetch_current_block_number.
BeginPass ==
    /\ current_block_number' = IF chain_at' = 0 THEN 0 ELSE height[ChainsInOrder[chain_at']]
    /\ statements' = IF chain_at' = 0 THEN <<>> ELSE Due(ChainsInOrder[chain_at'])

\* The first tick of the interval comes at once and repeats the first round: left out.
StartRound ==
    /\ chain_at = 0 /\ timer = 0
    /\ chain_at' = 1
    /\ timer' = IngestionRate
    /\ BeginPass
    /\ UNCHANGED <<height, oldest, last_pruned_age, crashes>>

\* prune_events, then prune_state_versions table by table, all with the bound computed
\* from the block number of the pass
DeleteOldRows ==
    /\ statements # <<>>
    /\ oldest' = [oldest EXCEPT ![Head(statements)][chain] =
                     IF GetMinBlockNumber(current_block_number) > @
                     THEN GetMinBlockNumber(current_block_number) ELSE @]
    /\ statements' = Tail(statements)
    /\ UNCHANGED <<height, timer, chain_at, current_block_number, last_pruned_age, crashes>>

\* last_pruned_at_per_chain_id.insert, whether or not anything was pruned
FinishPass ==
    /\ chain_at > 0 /\ statements = <<>>
    /\ last_pruned_age' = [last_pruned_age EXCEPT ![chain] = 0]
    /\ chain_at' = IF chain_at = Len(ChainsInOrder) THEN 0 ELSE chain_at + 1
    /\ BeginPass
    /\ UNCHANGED <<height, oldest, timer, crashes>>

Crash ==
    /\ crashes < MaxCrashes
    /\ crashes' = crashes + 1
    /\ timer' = 0 /\ chain_at' = 0 /\ current_block_number' = 0 /\ statements' = <<>>
    /\ last_pruned_age' = [c \in ChainIds |-> NoEntry]
    /\ UNCHANGED <<height, oldest>>

Subtask == PassSecond \/ StartRound \/ DeleteOldRows \/ FinishPass

Next == (\E c \in ChainIds : MineBlock(c)) \/ Subtask \/ Crash

\* Time passes, and the subtask loops for ever on its interval.
Spec == Init /\ [][Next]_vars /\ WF_vars(Subtask)

IsStale(table, c) == oldest[table][c] < GetMinBlockNumber(height[c])

\* "How often stale data gets pruned" (pruning.rs): rows more than prune_n_blocks_away
\* blocks behind their chain are deleted in the end, from every table.
StaleRowsPruned ==
    \A table \in TableNames : \A c \in ChainIds : IsStale(table, c) ~> ~ IsStale(table, c)
=============================================================================
