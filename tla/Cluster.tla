------------------------------ MODULE Cluster -------------------------------
(***************************************************************************)
(* Nodes started over one database: each prunes and joins the list of      *)
(* nodes, waits one election period, sets the database up statement by     *)
(* statement (resetting it when its Config asks for a reset the root       *)
(* states do not record) and then, once per period, keeps itself active,   *)
(* elects the newest active node and starts or stops its tasks.  Processes *)
(* crash between any two statements; setups take as long as they take.     *)
(*                                                                         *)
(* Time advances by seconds, which is how the nodes table stores it.  The  *)
(* tasks are those of Ingester and Handlers, reduced to what a reset and a *)
(* second writer can disturb: they load a cursor, and later commit a batch *)
(* with the cursor behind it.  A block stands for a batch of blocks, with  *)
(* its predecessors out of the confirmation window.                        *)
(*                                                                         *)
(* A definition Foo_Slip is what a slip in the code would make of Foo.     *)
(***************************************************************************)
EXTENDS Integers, Sequences, FiniteSets, SequencesExt

CONSTANTS
    NodeCount,                      \* node rows ever created; a restart is a new one
    ElectionRate,                   \* Config::get_node_election_rate_ms, in seconds
    MaxConcurrentNodeCount,
    MaxRootStateCount,              \* root::states::MAX_COUNT
    ResetCount,                     \* per node, Config::reset_count ...
    ResetIncludingSideEffectsCount, \* ... and its dangerous relative
    OptimizationEnabled,            \* Config::optimization_config.is_some()
    StartBlockNumber, MaxBlockNumber,
    MaxCrashes,                     \* process deaths
    MaxLapses,                      \* times a heartbeat goes stale
    RoundTime,                      \* seconds a round of the loop may take
    MaxSetups,                      \* setups in progress at once
    FollowOverlaps                  \* whether tasks go on once two nodes have written at once

Nodes == 1..NodeCount
Blocks == StartBlockNumber..MaxBlockNumber

\* Deployments never go back to a lower reset count.
ASSUME ClusterAssumption ==
    /\ {NodeCount, ElectionRate, MaxConcurrentNodeCount, MaxRootStateCount,
        StartBlockNumber, MaxSetups} \subseteq Nat \ {0}
    /\ {MaxBlockNumber, MaxCrashes, MaxLapses, RoundTime} \subseteq Nat
    /\ RoundTime <= ElectionRate
    /\ OptimizationEnabled \in BOOLEAN /\ FollowOverlaps \in BOOLEAN
    /\ ResetCount \in [Nodes -> Nat] /\ ResetIncludingSideEffectsCount \in [Nodes -> Nat]
    /\ \A n, m \in Nodes : n < m =>
          /\ ResetCount[n] <= ResetCount[m]
          /\ ResetIncludingSideEffectsCount[n] <= ResetIncludingSideEffectsCount[m]

Tables == {"root_states", "contract_addresses", "events", "reorged_blocks", "states"}
Tasks == {"ingester", "handlers"}
\* Older than this, a row is inactive for good.
MaxAge == 2 * ElectionRate

-----------------------------------------------------------------------------
VARIABLES
    \* --- the database
    nodes,          \* ids of the rows of chaindexing_nodes
    active_age,     \* seconds since their last_active_at, up to MaxAge
    inserted_at,    \* the rank of the second they were inserted in
    this_second,    \* the rank of the current second
    tables,         \* tables that exist
    root_states,    \* rows of chaindexing_root_states, oldest first
    cursors,        \* cursors of the contract's row: none, or one record
    events,         \* per block, rows of chaindexing_events, up to 2
    versions,       \* per block, times its changes are in the state tables, up to 2

    \* --- each process
    pc,
    timer,          \* seconds to its next wake-up
    todo,           \* statements its setup has left
    root,           \* root state its setup is to append
    elected,        \* the leader it last elected
    state,          \* NodeTasksState
    tasks,          \* those of its tasks that run
    loaded,         \* what they read: the ingest cursor, the block to handle and
                    \* the side-effect cursor; 0 when between passes.  And whether
                    \* the block has been handled, in a transaction still open
    recent,         \* NodeHeartbeat::is_recent
    crashes, lapses,

    \* --- history
    side_effects,   \* per block, runs of its side-effect handler
    cut_off,        \* per block, those whose transaction never committed
    overlapped      \* two nodes have been writing at once

node_rows == <<nodes, active_age, inserted_at, this_second>>
index == <<cursors, events, versions, side_effects>>
database == <<tables, root_states, index>>
setup == <<todo, root>>
running == <<state, tasks, loaded, cut_off>>
environment == <<recent, crashes, lapses>>
vars == <<node_rows, database, pc, timer, setup, elected, running, environment, overlapped>>

Nothing == [ingest |-> 0, block |-> 0, side_effects |-> 0, is_open |-> FALSE]
DefaultRootState == [reset_count |-> 0, reset_including_side_effects_count |-> 0]
AtMostTwo(i) == IF i > 2 THEN 2 ELSE i
Alive(n) == pc[n] \notin {"unborn", "dead"}

-----------------------------------------------------------------------------
(* Setting up *)

\* The statements of reset: internal tables, state tables; the user's reset queries
\* touch tables of their own.
ResetStatements_CursorsFirst ==
    <<"restart_cursors", "drop_events", "drop_reorged_blocks", "drop_states">>

ResetStatements == <<"drop_events", "drop_reorged_blocks", "restart_cursors", "drop_states">>

SetupStatements ==
    <<"create_root_states", "create_contract_addresses", "default_root_state",
      "prune_root_states", "maybe_reset">>

MigrationStatements ==
    <<"create_events", "create_reorged_blocks", "create_states", "insert_contract_addresses">>

ShouldResetNormally(n, r) == ResetCount[n] > r.reset_count
ShouldResetIncludingSideEffects(n, r) ==
    ResetIncludingSideEffectsCount[n] > r.reset_including_side_effects_count

When(condition, statements) == IF condition THEN statements ELSE <<>>

ResetPlan_RecordedFirst(n, r) ==
    When(ShouldResetNormally(n, r), <<"append_root_state">> \o ResetStatements)
    \o When(ShouldResetIncludingSideEffects(n, r),
            <<"append_root_state">> \o ResetStatements \o <<"zero_side_effects">>)

\* maybe_reset, given the last root state
ResetPlan(n, r) ==
    When(ShouldResetNormally(n, r), ResetStatements)
    \o When(ShouldResetIncludingSideEffects(n, r), ResetStatements \o <<"zero_side_effects">>)
    \o When(ShouldResetNormally(n, r) \/ ShouldResetIncludingSideEffects(n, r),
            <<"append_root_state">>)

UpdatedRootState(n, r) ==
    [reset_count |-> IF ShouldResetNormally(n, r) THEN ResetCount[n] ELSE r.reset_count,
     reset_including_side_effects_count |->
        IF ShouldResetIncludingSideEffects(n, r) THEN ResetIncludingSideEffectsCount[n]
        ELSE r.reset_including_side_effects_count]

\* ORDER BY id DESC LIMIT retain_size
PrunedRootStates(rows) ==
    IF Len(rows) > MaxRootStateCount
    THEN SubSeq(rows, Len(rows) - MaxRootStateCount + 1, Len(rows)) ELSE rows

PrunedNodes(rows) ==
    {n \in rows : Cardinality({m \in rows : m > n}) < MaxConcurrentNodeCount}

NoRows == [b \in Blocks |-> 0]

RestartedCursors_Everything(rows) ==
    {[c EXCEPT !.ingest = StartBlockNumber, !.handle = StartBlockNumber, !.side_effects = 0] :
        c \in rows}

\* restart_ingest_and_handlers_next_block_numbers
RestartedCursors(rows) ==
    {[c EXCEPT !.ingest = StartBlockNumber, !.handle = StartBlockNumber] : c \in rows}

\* zero_next_block_number_for_side_effects
ZeroedSideEffects(rows) == {[c EXCEPT !.side_effects = 0] : c \in rows}

InsertedAddress_Anyway(rows) ==
    rows \cup {[ingest |-> StartBlockNumber, handle |-> StartBlockNumber, side_effects |-> 0]}

\* ON CONFLICT (chain_id, address) DO NOTHING
InsertedAddress(rows) ==
    IF rows = {} THEN {[ingest |-> StartBlockNumber, handle |-> StartBlockNumber,
                        side_effects |-> 0]}
    ELSE rows

-----------------------------------------------------------------------------
(* The statements of one setup, executed one after the other *)

Does(n, statement) ==
    /\ pc[n] = "setup" /\ todo[n] # <<>> /\ Head(todo[n]) = statement

Proceed(n) == todo' = [todo EXCEPT ![n] = Tail(@)]

Creates == [create_root_states |-> "root_states", create_contract_addresses |-> "contract_addresses",
            create_events |-> "events", create_reorged_blocks |-> "reorged_blocks",
            create_states |-> "states"]
Drops == [drop_events |-> "events", drop_reorged_blocks |-> "reorged_blocks",
          drop_states |-> "states"]

\* CREATE TABLE IF NOT EXISTS
CreateTable(n) ==
    \E statement \in DOMAIN Creates :
        /\ Does(n, statement) /\ Proceed(n)
        /\ tables' = tables \cup {Creates[statement]}
        /\ UNCHANGED <<root_states, root, index>>

\* DROP TABLE IF EXISTS, which waits for the transactions that have written to it
DropTable(n) ==
    \E statement \in DOMAIN Drops :
        /\ Does(n, statement) /\ Proceed(n)
        /\ statement = "drop_states" => \A m \in Nodes : ~ loaded[m].is_open
        /\ tables' = tables \ {Drops[statement]}
        /\ events' = IF statement = "drop_events" THEN NoRows ELSE events
        /\ versions' = IF statement = "drop_states" THEN NoRows ELSE versions
        /\ UNCHANGED <<root_states, root, cursors, side_effects>>

\* setup_root: the first root state, and no more of them than MAX_COUNT
SetupRootState(n) ==
    /\ \/ /\ Does(n, "default_root_state")
          /\ root_states' = IF root_states = <<>> THEN <<DefaultRootState>> ELSE root_states
       \/ /\ Does(n, "prune_root_states")
          /\ root_states' = PrunedRootStates(root_states)
    /\ Proceed(n)
    /\ UNCHANGED <<tables, root, index>>

MaybeReset(n) ==
    /\ Does(n, "maybe_reset")
    /\ LET last == Last(root_states)
       IN  /\ root' = [root EXCEPT ![n] = UpdatedRootState(n, last)]
           /\ todo' = [todo EXCEPT ![n] = ResetPlan(n, last) \o MigrationStatements]
    /\ UNCHANGED database

AppendRootState(n) ==
    /\ Does(n, "append_root_state") /\ Proceed(n)
    /\ root_states' = Append(root_states, root[n])
    /\ UNCHANGED <<tables, root, index>>

UpdateCursors(n) ==
    /\ \/ Does(n, "restart_cursors") /\ cursors' = RestartedCursors(cursors)
       \/ Does(n, "zero_side_effects") /\ cursors' = ZeroedSideEffects(cursors)
       \/ Does(n, "insert_contract_addresses") /\ cursors' = InsertedAddress(cursors)
    /\ Proceed(n)
    /\ UNCHANGED <<tables, root_states, root, events, versions, side_effects>>

ExecuteStatement(n) ==
    /\ CreateTable(n) \/ DropTable(n) \/ SetupRootState(n) \/ MaybeReset(n)
       \/ AppendRootState(n) \/ UpdateCursors(n)
    /\ UNCHANGED <<node_rows, pc, timer, elected, running, environment>>

-----------------------------------------------------------------------------
(* Joining *)

\* setup_nodes; a node's id is its place in the order of joining.
SetupNodes(n) ==
    /\ pc[n] = "unborn" /\ \A m \in Nodes : m < n => pc[m] \notin {"unborn", "joining"}
    /\ nodes' = PrunedNodes(nodes)
    /\ pc' = [pc EXCEPT ![n] = "joining"]
    /\ UNCHANGED <<active_age, inserted_at, this_second, database, timer, setup, elected,
                   running, environment>>

\* create_and_load_new_node, which defaults both times to the current second
CreateNode(n) ==
    /\ pc[n] = "joining"
    /\ nodes' = nodes \cup {n}
    /\ active_age' = [active_age EXCEPT ![n] = 0]
    /\ inserted_at' = [inserted_at EXCEPT ![n] = this_second]
    /\ pc' = [pc EXCEPT ![n] = "waiting"]
    /\ timer' = [timer EXCEPT ![n] = ElectionRate]
    /\ UNCHANGED <<this_second, database, setup, elected, running, environment>>

\* wait_for_non_leader_nodes_to_abort has slept
StartSetup(n) ==
    /\ pc[n] = "waiting" /\ timer[n] = 0
    /\ Cardinality({m \in Nodes : pc[m] = "setup"}) < MaxSetups
    /\ pc' = [pc EXCEPT ![n] = "setup"]
    /\ todo' = [todo EXCEPT ![n] = SetupStatements]
    /\ UNCHANGED <<node_rows, database, timer, root, elected, running, environment>>

\* The node's loop is spawned with its tasks Idle.
StartLoop(n) ==
    /\ pc[n] = "setup" /\ todo[n] = <<>>
    /\ pc' = [pc EXCEPT ![n] = "tick"]
    /\ timer' = [timer EXCEPT ![n] = 0]
    /\ root' = [root EXCEPT ![n] = DefaultRootState]
    /\ UNCHANGED <<node_rows, database, todo, elected, running, environment>>

-----------------------------------------------------------------------------
(* The loop of a node *)

KeepNodeActive(n) ==
    /\ pc[n] = "tick" /\ timer[n] = 0
    /\ active_age' = IF n \in nodes THEN [active_age EXCEPT ![n] = 0] ELSE active_age
    /\ pc' = [pc EXCEPT ![n] = "elect"]
    /\ timer' = [timer EXCEPT ![n] = RoundTime]
    /\ UNCHANGED <<nodes, inserted_at, this_second, database, setup, elected, running,
                   environment>>

ActiveNodes_OnePeriod == {n \in nodes : active_age[n] < ElectionRate}

\* get_active_nodes: last_active_at > now - 2 * rate, in seconds
ActiveNodes == {n \in nodes : active_age[n] < 2 * ElectionRate}

\* elect_leader: the newest; of two born in the same second, the one the query
\* happens to return first.
IsElected(n) == n \in ActiveNodes /\ \A m \in ActiveNodes : inserted_at[m] <= inserted_at[n]

\* The election; unwrap panics in elect_leader when no node is active, and ends the
\* loop, not the tasks it started.
Elect(n) ==
    /\ pc[n] = "elect"
    /\ IF ActiveNodes = {}
       THEN pc' = [pc EXCEPT ![n] = "panicked"] /\ UNCHANGED elected
       ELSE /\ \E leader \in Nodes :
                  IsElected(leader) /\ elected' = [elected EXCEPT ![n] = leader]
            /\ pc' = [pc EXCEPT ![n] = "orchestrate"]
    /\ UNCHANGED <<node_rows, database, timer, setup, running, environment>>

RunsSideEffects(b, side_effects_from) == b >= side_effects_from

\* A side effect is not undone with the transaction its block is handled in.
CutOff(n) ==
    cut_off' = IF loaded[n].is_open /\ RunsSideEffects(loaded[n].block, loaded[n].side_effects)
               THEN [cut_off EXCEPT ![loaded[n].block] = @ + 1] ELSE cut_off

\* NodeTask::stop aborts the tasks at an await, in the middle of a transaction or not.
SetState(n, s, ts) ==
    /\ CutOff(n)
    /\ state' = [state EXCEPT ![n] = s]
    /\ tasks' = [tasks EXCEPT ![n] = ts]
    /\ loaded' = [loaded EXCEPT ![n] = Nothing]

MakeActive(n) == SetState(n, "Active", Tasks)
MakeInactive(n) == SetState(n, "InActive", {})
Abort(n) == SetState(n, "Aborted", {})

Orchestrate_KeepingOthers(n) ==
    IF elected[n] = n
    THEN CASE state[n] \in {"Idle", "Aborted"} -> MakeActive(n)
           [] state[n] = "Active" /\ OptimizationEnabled /\ ~ recent[n] -> MakeInactive(n)
           [] state[n] = "InActive" /\ OptimizationEnabled /\ recent[n] -> MakeActive(n)
           [] OTHER -> UNCHANGED running
    ELSE UNCHANGED running

\* NodeTasks::orchestrate, started start_after_in_secs ago
Orchestrate(n) ==
    IF elected[n] = n
    THEN CASE state[n] \in {"Idle", "Aborted"} -> MakeActive(n)
           [] state[n] = "Active" /\ OptimizationEnabled /\ ~ recent[n] -> MakeInactive(n)
           [] state[n] = "InActive" /\ OptimizationEnabled /\ recent[n] -> MakeActive(n)
           [] OTHER -> UNCHANGED running
    ELSE IF state[n] = "Active" THEN Abort(n) ELSE UNCHANGED running

\* The next tick is a period after the last one, not after the end of the round.  The
\* first one, which repeats the first round at once, is left out.
RunTasks(n) ==
    /\ pc[n] = "orchestrate"
    /\ Orchestrate(n)
    /\ pc' = [pc EXCEPT ![n] = "tick"]
    /\ timer' = [timer EXCEPT ![n] = ElectionRate - (RoundTime - @)]
    /\ elected' = [elected EXCEPT ![n] = n]
    /\ UNCHANGED <<node_rows, database, setup, environment>>

-----------------------------------------------------------------------------
(* The tasks *)

\* A query on a missing table panics: the subtask ends, its node stays Active.
PanicTask(n, task) ==
    /\ tasks' = [tasks EXCEPT ![n] = @ \ {task}]
    /\ loaded' = [loaded EXCEPT ![n] = IF task = "ingester" THEN [@ EXCEPT !.ingest = 0]
                                      ELSE [@ EXCEPT !.block = 0, !.side_effects = 0]]
    /\ UNCHANGED index

LoadToIngest(n) ==
    /\ "ingester" \in tasks[n] /\ loaded[n].ingest = 0
    /\ \E c \in cursors : /\ c.ingest <= MaxBlockNumber
                          /\ loaded' = [loaded EXCEPT ![n].ingest = c.ingest]
    /\ UNCHANGED <<tasks, index>>

\* One transaction: the events of the batch and the cursor behind them
Ingest(n) ==
    LET b == loaded[n].ingest IN
    /\ b # 0
    /\ IF "events" \notin tables
       THEN PanicTask(n, "ingester")
       ELSE /\ events' = [events EXCEPT ![b] = AtMostTwo(@ + 1)]
            /\ cursors' = {[c EXCEPT !.ingest = b + 1] : c \in cursors}
            /\ loaded' = [loaded EXCEPT ![n].ingest = 0]
            /\ UNCHANGED <<tasks, versions, side_effects>>

\* The first stored block from the handle cursor on
IsNextToHandle(b, c) ==
    /\ b >= c.handle /\ events[b] > 0
    /\ \A d \in Blocks : d >= c.handle /\ events[d] > 0 => b <= d

LoadToHandle(n) ==
    /\ "handlers" \in tasks[n] /\ loaded[n].block = 0
    /\ IF "events" \notin tables
       THEN PanicTask(n, "handlers")
       ELSE /\ \E c \in cursors, b \in Blocks :
                  /\ IsNextToHandle(b, c)
                  /\ loaded' = [loaded EXCEPT ![n].block = b, ![n].side_effects = c.side_effects]
            /\ UNCHANGED <<tasks, index>>

HandledCursor(c, b, side_effects_from) ==
    [c EXCEPT !.handle = b + 1,
              !.side_effects = IF b + 1 > side_effects_from THEN b + 1 ELSE @]

\* The handlers of the block, in a transaction: the changes to the states stay in it,
\* the side effects are done at once; those of a block handled before are left out.
RunHandlers(n) ==
    LET b == loaded[n].block IN
    /\ b # 0 /\ ~ loaded[n].is_open
    /\ IF "states" \notin tables
       THEN PanicTask(n, "handlers")
       ELSE /\ loaded' = [loaded EXCEPT ![n].is_open = TRUE]
            /\ side_effects' = IF RunsSideEffects(b, loaded[n].side_effects)
                               THEN [side_effects EXCEPT ![b] = @ + 1] ELSE side_effects
            /\ UNCHANGED <<tasks, cursors, events, versions>>

\* update_next_block_number_to_handle_from and ..._for_side_effects, then commit_txns
CommitHandled(n) ==
    LET b == loaded[n].block IN
    /\ loaded[n].is_open
    /\ versions' = [versions EXCEPT ![b] = AtMostTwo(@ + 1)]
    /\ cursors' = {HandledCursor(c, b, loaded[n].side_effects) : c \in cursors}
    /\ loaded' = [loaded EXCEPT ![n].block = 0, ![n].side_effects = 0, ![n].is_open = FALSE]
    /\ UNCHANGED <<tasks, events, side_effects>>

\* Once two nodes have written at once, what is open is still committed.
Index(n) ==
    /\ \/ /\ FollowOverlaps \/ ~ overlapped
          /\ LoadToIngest(n) \/ Ingest(n) \/ LoadToHandle(n) \/ RunHandlers(n)
       \/ CommitHandled(n)
    /\ UNCHANGED <<node_rows, tables, root_states, pc, timer, setup, elected, state, cut_off,
                   environment>>

-----------------------------------------------------------------------------
(* Time, crashes and heartbeats *)

\* A round starts in the second it is due and ends within RoundTime; a setup may be as
\* slow as it likes.
IsDue(n) == pc[n] \in {"tick", "elect", "orchestrate"} /\ timer[n] = 0

PassSecond ==
    /\ \A n \in Nodes : ~ IsDue(n)
    /\ active_age' = [n \in Nodes |-> IF active_age[n] < MaxAge THEN active_age[n] + 1
                                      ELSE MaxAge]
    /\ timer' = [n \in Nodes |-> IF timer[n] > 0 THEN timer[n] - 1 ELSE 0]
    /\ this_second' = IF \E n \in nodes : inserted_at[n] = this_second
                      THEN this_second + 1 ELSE this_second
    /\ UNCHANGED <<nodes, inserted_at, database, pc, setup, elected, running, environment>>

\* The process dies, with its tasks and the transactions they had open.
Crash(n) ==
    /\ Alive(n) /\ crashes < MaxCrashes
    /\ crashes' = crashes + 1
    /\ pc' = [pc EXCEPT ![n] = "dead"]
    /\ timer' = [timer EXCEPT ![n] = 0]
    /\ todo' = [todo EXCEPT ![n] = <<>>]
    /\ root' = [root EXCEPT ![n] = DefaultRootState]
    /\ elected' = [elected EXCEPT ![n] = n]
    /\ SetState(n, "Idle", {})
    /\ recent' = [recent EXCEPT ![n] = TRUE]
    /\ UNCHANGED <<node_rows, database, lapses>>

\* The application stops keeping the node alive, start_after_in_secs or more after its
\* start, or starts again; only the rounds of the loop can tell.
Heartbeat(n) ==
    /\ OptimizationEnabled /\ pc[n] = "tick"
    /\ recent' = [recent EXCEPT ![n] = ~ @]
    /\ IF recent[n] THEN lapses < MaxLapses /\ lapses' = lapses + 1 ELSE UNCHANGED lapses
    /\ UNCHANGED <<node_rows, database, pc, timer, setup, elected, running, crashes>>

-----------------------------------------------------------------------------
Init ==
    /\ nodes = {}
    /\ active_age = [n \in Nodes |-> MaxAge]
    /\ inserted_at = [n \in Nodes |-> 0]
    /\ this_second = 1
    /\ tables = {} /\ root_states = <<>> /\ cursors = {}
    /\ events = NoRows /\ versions = NoRows /\ side_effects = NoRows /\ cut_off = NoRows
    /\ pc = [n \in Nodes |-> "unborn"]
    /\ timer = [n \in Nodes |-> 0]
    /\ todo = [n \in Nodes |-> <<>>]
    /\ root = [n \in Nodes |-> DefaultRootState]
    /\ elected = [n \in Nodes |-> n]
    /\ state = [n \in Nodes |-> "Idle"]
    /\ tasks = [n \in Nodes |-> {}]
    /\ loaded = [n \in Nodes |-> Nothing]
    /\ recent = [n \in Nodes |-> TRUE]
    /\ crashes = 0 /\ lapses = 0
    /\ overlapped = FALSE

\* Nodes that write to the tables of the index, and nodes about to
Writers == {n \in Nodes : pc[n] = "setup" \/ tasks[n] # {}}
Booting == {n \in Nodes : pc[n] \in {"waiting", "setup"}}
Overlap == Cardinality(Writers) > 1 \/ Cardinality(Booting) > 1

Boot(n) == CreateNode(n) \/ StartSetup(n) \/ ExecuteStatement(n) \/ StartLoop(n)
Round(n) == KeepNodeActive(n) \/ Elect(n) \/ RunTasks(n)

Step ==
    \/ \E n \in Nodes : SetupNodes(n) \/ Boot(n) \/ Round(n) \/ Index(n) \/ Crash(n) \/ Heartbeat(n)
    \/ PassSecond

Next == Step /\ overlapped' = (overlapped \/ Overlap')

Spec == Init /\ [][Next]_vars

\* Time passes and tokio runs every process that is ready; nothing makes a node join,
\* crash or get a heartbeat.
FairSpec ==
    /\ Spec
    /\ WF_vars(PassSecond /\ Next)
    /\ \A n \in Nodes : WF_vars((Boot(n) \/ Round(n)) /\ Next)

-----------------------------------------------------------------------------
(* Properties *)

TypeOK ==
    /\ nodes \subseteq Nodes
    /\ active_age \in [Nodes -> 0..MaxAge]
    /\ inserted_at \in [Nodes -> 0..NodeCount] /\ this_second \in 1..NodeCount + 1
    /\ tables \subseteq Tables
    /\ root_states \in Seq([reset_count : Nat, reset_including_side_effects_count : Nat])
    /\ Cardinality(cursors) <= 1
    /\ cursors \subseteq [ingest : Nat, handle : Nat, side_effects : Nat]
    /\ events \in [Blocks -> 0..2] /\ versions \in [Blocks -> 0..2]
    /\ side_effects \in [Blocks -> Nat] /\ cut_off \in [Blocks -> Nat]
    /\ pc \in [Nodes -> {"unborn", "joining", "waiting", "setup", "tick", "elect", "orchestrate",
                         "panicked", "dead"}]
    /\ timer \in [Nodes -> 0..ElectionRate]
    /\ \A n \in Nodes : todo[n] # <<>> => pc[n] = "setup"
    /\ root \in [Nodes -> [reset_count : Nat, reset_including_side_effects_count : Nat]]
    /\ elected \in [Nodes -> Nodes]
    /\ state \in [Nodes -> {"Idle", "Active", "InActive", "Aborted"}]
    /\ tasks \in [Nodes -> SUBSET Tasks]
    /\ \A n \in Nodes : tasks[n] # {} => state[n] = "Active"
    /\ loaded \in [Nodes -> [ingest : {0} \cup Blocks, block : {0} \cup Blocks,
                             side_effects : 0..MaxBlockNumber + 1, is_open : BOOLEAN]]
    /\ recent \in [Nodes -> BOOLEAN] /\ overlapped \in BOOLEAN
    /\ crashes \in 0..MaxCrashes /\ lapses \in 0..MaxLapses

Indexable == {"events", "states"} \subseteq tables

\* As long as no two nodes have been writing at once, whatever crashed in the middle
\* of which reset, wherever tasks can run the events are those below the ingest
\* cursor, once each, and the states those below the handle cursor, once each.
\* (booting::maybe_reset, in separate statements.)
IndexMatchesCursors ==
    ~ overlapped /\ Indexable => \A c \in cursors, b \in Blocks :
        /\ events[b] = IF b < c.ingest THEN 1 ELSE 0
        /\ versions[b] = IF b < c.handle THEN 1 ELSE 0

\* "SideEffectHandlers will not run if they ran already" (Config::reset), but for two
\* causes: once more for each recorded reset that includes side effects, and once
\* more for each time the process died, or the leader aborted its tasks, between
\* the side effect and the commit of the transaction it belongs to
\* (handle_events::run commits after the handlers of the whole batch).
SideEffectsOncePerReset ==
    ~ overlapped => \A b \in Blocks : side_effects[b] > 0 =>
        side_effects[b] <= 1 + Last(root_states).reset_including_side_effects_count + cut_off[b]

\* A higher reset count is recorded only over an index that was reset: what it finds
\* is gone, and a crash before this point has the next node do it again.
ResetsAreRecordedLast ==
    [][root_states # <<>> /\ root_states' # <<>> /\ Last(root_states') # Last(root_states)
        /\ ~ overlapped' =>
           /\ tables' \cap {"events", "reorged_blocks", "states"} = {}
           /\ \A c \in cursors' : c.ingest = StartBlockNumber /\ c.handle = StartBlockNumber
      ]_vars

\* "Keep node active first to guarantee that at least this node is active before
\* election" (lib.rs): it is, even a second later, as long as no newer node pruned
\* its row.
ActiveBeforeElection ==
    \A n \in nodes : pc[n] = "elect" => n \in ActiveNodes

InLoop(n) == pc[n] \in {"tick", "elect", "orchestrate"}
Competing == {n \in nodes : InLoop(n)}
Tied == \E n, m \in Competing : n # m /\ inserted_at[n] = inserted_at[m]
Panicked == \E n \in Nodes : pc[n] = "panicked"
Newest(n) == n \in Competing /\ \A m \in Competing : m <= n

\* Whoever crashed, once nodes stop coming and going the newest that still has its
\* row is the one that is active, and no other node's tasks run; unless two of them
\* joined in the same second, which nothing decides between, or a loop panicked.
\* (NodeTasks::orchestrate, elect_leader, keep_node_active.)
EventuallyOneLeader ==
    <>[](~ Tied /\ ~ Panicked => \A n \in Nodes : Newest(n) =>
            /\ recent[n] => state[n] = "Active"
            /\ \A m \in Nodes \ {n} : tasks[m] = {})

\* "Restarts indexing from scratch for EventHandlers" (config.rs, Config::reset): the
\* events below the ingest cursor are there.
RestartsFromScratch ==
    Indexable => \A c \in cursors, b \in Blocks : b < c.ingest => events[b] > 0
=============================================================================
