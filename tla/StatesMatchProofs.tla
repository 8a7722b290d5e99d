-------------------------- MODULE StatesMatchProofs --------------------------
(***************************************************************************)
(* Theorems about States, until the first re-organization: the views are   *)
(* what the events behind the cursors make, and no deferred mutation is    *)
(* lost.                                                                   *)
(***************************************************************************)
EXTENDS StatesProofs

-----------------------------------------------------------------------------
(* The invariants *)

RowsOf(V, r, table, key) == {v \in V : v.table = table /\ v.key = key /\ v.event.row = r}

Matches(V, r, events, table, key) ==
    IF Counted(events, table, key) = {}
    THEN RowsOf(V, r, table, key) = {}
    ELSE \E v \in RowsOf(V, r, table, key) :
            RowsOf(V, r, table, key) = {v} /\ v.applied = Counted(events, table, key)

\* The rows of V are what the events make of the states that are r's alone.
MatchesAll(V, r, events) ==
    \A key \in Keys : \A table \in OwnTables(r) : Matches(V, r, events, table, key)

IsActive(c) == pc[c] \in {"handle", "mutate", "defer", "refresh", "waiting"}

\* What a subtask sees once the refresh under way is done.
Pending(c) ==
    IF refreshing[c] = <<>> THEN VisibleViews(c)
    ELSE {v \in VisibleViews(c) : v.group # Head(refreshing[c]).view.group}
         \cup NewViews(Head(refreshing[c]))

\* The events of its batch it has handled.
DoneOfBatch(c) == {batch[c][i] : i \in {j \in 1..Len(batch[c]) : j < at[c]}}

Done(c, r) == Handled(r) \cup {e \in DoneOfBatch(c) : e.row = r}

\* A batch is what is stored from the cursor of its row on, which is not streamed again
\* before it commits.
IsBatchOf(c, r) ==
    /\ r \in ContractAddresses /\ r.chain_id = c
    /\ batch[c] = LoadEvents(r, next_block_number_to_handle_from[r])
    /\ \A a \in streamed[c] : a.row # r

CursorsFresh(c) ==
    /\ \A a \in streamed[c] : a.from = next_block_number_to_handle_from[a.row]
    /\ batch[c] # <<>> => \E r \in ContractAddresses : IsBatchOf(c, r)

TransactionMatches(c) ==
    /\ IsActive(c) => \A r \in ContractAddresses : r.chain_id = c => MatchesAll(Pending(c), r, Done(c, r))
    /\ pc[c] = "waiting" => IsShared(Head(refreshing[c]).view)

MatchInv ==
    reorged_blocks = {} =>
        /\ \A r \in ContractAddresses : MatchesAll(views, r, Handled(r))
        /\ \A c \in ChainIds : CursorsFresh(c) /\ TransactionMatches(c)

\* An event whose mutation is deferred, unless it creates the state.
IsDeferrable(e) == KindOf[e.table] = "MultiChainState" /\ e.op = "transfer"

IsQueued(e) == \E i \in DOMAIN deferred : deferred[i].event = e

IsVersioned(e) == \E v \in versions : v.view.event = e

KeptInv ==
    /\ crashes \in Nat /\ prunes \in Nat
    /\ reorged_blocks = {} /\ crashes = 0 /\ prunes = 0 /\ pc[Loop] # "dead" =>
        /\ \A r \in ContractAddresses : \A e \in Handled(r) :
              IsDeferrable(e) => IsVersioned(e) \/ IsQueued(e)
        /\ \A c \in ChainIds : IsActive(c) => \A e \in DoneOfBatch(c) :
              IsDeferrable(e) => \/ \E v \in txn[c].appended : v.view.event = e
                                 \/ IsVersioned(e) \/ IsQueued(e)
        /\ pc[Loop] \in {"delete", "insert"} => DeferredVersion \in versions

-----------------------------------------------------------------------------
(* Events counted and handled *)

LEMMA CountedOther ==
    ASSUME NEW E, NEW e, NEW table, NEW key, e.table # table \/ e.key # key
    PROVE  Counted(E \cup {e}, table, key) = Counted(E, table, key)
BY DEF Counted

\* A transfer after all others counts; after a burn none does.
LEMMA CountedNext ==
    ASSUME NEW E \in SUBSET Events, NEW e \in Events, \A f \in E : Precedes(f, e)
    PROVE  /\ e.op = "transfer" =>
                 Counted(E \cup {e}, e.table, e.key) = Counted(E, e.table, e.key) \cup {e}
           /\ e.op = "burn" => Counted(E \cup {e}, e.table, e.key) = {}
<1> DEFINE OfKey(F) == {f \in F : f.table = e.table /\ f.key = e.key}
<1>1. OfKey(E \cup {e}) = OfKey(E) \cup {e}
  OBVIOUS
<1>2. \A F, g : g \in Counted(F, e.table, e.key) <=>
                  /\ g \in OfKey(F) /\ g.op = "transfer"
                  /\ \A f \in OfKey(F) : f.op = "burn" => Precedes(f, g)
  BY DEF Counted
<1>3. \A f \in OfKey(E) : Precedes(f, e) /\ ~ Precedes(e, f) /\ f \in Events
  BY OrderOfEvents
<1>4. ~ Precedes(e, e)
  BY OrderOfEvents
<1> HIDE DEF OfKey
<1>5. ASSUME e.op = "transfer"
      PROVE  Counted(E \cup {e}, e.table, e.key) = Counted(E, e.table, e.key) \cup {e}
  <2>1. "transfer" # "burn"
    OBVIOUS
  <2>2. \A f \in OfKey(E \cup {e}) : f.op = "burn" => f \in OfKey(E)
    BY <1>1, <1>5, <2>1
  <2>3. \A g \in OfKey(E) : (\A f \in OfKey(E \cup {e}) : f.op = "burn" => Precedes(f, g))
                            <=> (\A f \in OfKey(E) : f.op = "burn" => Precedes(f, g))
    BY <1>1, <2>2
  <2>4. \A f \in OfKey(E \cup {e}) : f.op = "burn" => Precedes(f, e)
    BY <1>3, <2>2
  <2>5. e \notin OfKey(E)
    BY <1>3, <1>4
  <2>6. \A g \in OfKey(E) : g \in Counted(E \cup {e}, e.table, e.key) <=> g \in Counted(E, e.table, e.key)
    BY <1>1, <1>2, <2>3
  <2>7. e \in Counted(E \cup {e}, e.table, e.key)
    BY <1>1, <1>2, <1>5, <2>4
  <2>8. Counted(E \cup {e}, e.table, e.key) \subseteq OfKey(E) \cup {e}
        /\ Counted(E, e.table, e.key) \subseteq OfKey(E)
    BY <1>1, <1>2
  <2> QED BY <2>6, <2>7, <2>8
<1>6. ASSUME e.op = "burn"
      PROVE  Counted(E \cup {e}, e.table, e.key) = {}
  <2>1. e \in OfKey(E \cup {e}) /\ \A g \in OfKey(E \cup {e}) : ~ Precedes(e, g)
    BY <1>1, <1>3, <1>4
  <2> QED BY <1>2, <1>6, <2>1
<1> QED BY <1>5, <1>6

LEMMA DoneFields ==
    ASSUME TypeInv, NEW c \in ChainIds, NEW r
    PROVE  Done(c, r) \in SUBSET Events /\ DoneOfBatch(c) \in SUBSET Events /\ Handled(r) \in SUBSET Events
<1>1. \A i \in 1..Len(batch[c]) : batch[c][i] \in Events
  BY DEF TypeInv, Types, SubtaskTypes
<1> QED BY <1>1 DEF Done, DoneOfBatch, Handled

\* What a batch consists of.
LEMMA BatchEvents ==
    ASSUME TypeInv, NEW c \in ChainIds, NEW r, IsBatchOf(c, r)
    PROVE  \A i \in 1..Len(batch[c]) :
              /\ batch[c][i] \in Stored(r, next_block_number_to_handle_from[r])
              /\ batch[c][i] \in Events /\ batch[c][i].row = r
              /\ next_block_number_to_handle_from[r] <= batch[c][i].block_number
              /\ \A j \in 1..Len(batch[c]) : i < j => Precedes(batch[c][i], batch[c][j])
              /\ \A e \in Stored(r, next_block_number_to_handle_from[r]) :
                    Precedes(e, batch[c][i]) => \E j \in 1..Len(batch[c]) : j < i /\ batch[c][j] = e
<1> DEFINE from == next_block_number_to_handle_from[r]
           loaded == LoadEvents(r, from)
<1>1. batch[c] = loaded
  BY DEF IsBatchOf
<1>2. \A i \in 1..Len(loaded) :
        /\ loaded[i] \in Stored(r, from)
        /\ \A j \in 1..Len(loaded) : i < j => Precedes(loaded[i], loaded[j])
        /\ \A e \in Stored(r, from) : Precedes(e, loaded[i]) => \E j \in 1..Len(loaded) : j < i /\ loaded[j] = e
  BY LoadedEvents
<1>3. from \in Nat
  BY DEF IsBatchOf, TypeInv, Types, TableTypes
<1>4. \A e \in Stored(r, from) : e \in Events /\ e.row = r /\ from <= e.block_number
  BY <1>3, Constants DEF Stored
<1> HIDE DEF loaded, from
<1>5. \A i \in 1..Len(batch[c]) :
         /\ batch[c][i] \in Stored(r, from)
         /\ \A j \in 1..Len(batch[c]) : i < j => Precedes(batch[c][i], batch[c][j])
         /\ \A e \in Stored(r, from) :
               Precedes(e, batch[c][i]) => \E j \in 1..Len(batch[c]) : j < i /\ batch[c][j] = e
  BY <1>1, <1>2
<1> QED BY <1>4, <1>5 DEF from

\* The event at hand comes after all that is done of its contract.
LEMMA DoneBefore ==
    ASSUME TypeInv, NEW c \in ChainIds, NEW r, IsBatchOf(c, r), at[c] <= Len(batch[c])
    PROVE  /\ event(c) \in Events /\ event(c).row = r /\ event(c) = batch[c][at[c]]
           /\ \A f \in Done(c, r) : Precedes(f, event(c))
<1>1. at[c] \in 1..Len(batch[c]) /\ event(c) \in Events /\ event(c) = batch[c][at[c]]
  BY EventAtHand DEF TypeInv
<1>2. event(c).row = r /\ next_block_number_to_handle_from[r] <= event(c).block_number
  BY <1>1, BatchEvents
<1>3. \A f \in Handled(r) : Precedes(f, event(c))
  <2> SUFFICES ASSUME NEW f \in Handled(r)  PROVE Precedes(f, event(c))
    OBVIOUS
  <2>1. f \in Events /\ f.block_number < next_block_number_to_handle_from[r]
    BY DEF Handled
  <2>2. f.block_number \in Nat /\ event(c).block_number \in Nat /\ next_block_number_to_handle_from[r] \in Nat
    BY <1>1, <2>1, Constants DEF IsBatchOf, TypeInv, Types, TableTypes
  <2> QED BY <1>2, <2>1, <2>2 DEF Precedes
<1>4. \A f \in DoneOfBatch(c) : Precedes(f, event(c))
  BY <1>1, BatchEvents DEF DoneOfBatch
<1> QED BY <1>1, <1>2, <1>3, <1>4 DEF Done

\* Going on to the next event adds the one at hand to what is done.
LEMMA DoneOfNext ==
    ASSUME TypeInv, NEW c \in ChainIds, at[c] <= Len(batch[c]), at'[c] = at[c] + 1, batch'[c] = batch[c],
           UNCHANGED <<fork, next_block_number_to_handle_from>>
    PROVE  /\ DoneOfBatch(c)' = DoneOfBatch(c) \cup {event(c)}
           /\ \A r : Handled(r)' = Handled(r)
           /\ \A r : Done(c, r)' = Done(c, r) \cup {e \in {event(c)} : e.row = r}
<1>1. at[c] \in 1..Len(batch[c]) /\ event(c) = batch[c][at[c]] /\ Len(batch[c]) \in Nat
  BY EventAtHand DEF TypeInv, Types, SubtaskTypes
<1>2. {j \in 1..Len(batch[c]) : j < at[c] + 1} = {j \in 1..Len(batch[c]) : j < at[c]} \cup {at[c]}
  BY <1>1
<1>3. DoneOfBatch(c)' = DoneOfBatch(c) \cup {event(c)}
  BY <1>1, <1>2 DEF DoneOfBatch
<1>4. \A r : Handled(r)' = Handled(r)
  BY DEF Handled, IsStored
<1>5. ASSUME NEW r
      PROVE  Done(c, r)' = Done(c, r) \cup {e \in {event(c)} : e.row = r}
  <2>1. Done(c, r)' = Handled(r)' \cup {e \in DoneOfBatch(c)' : e.row = r}
    BY DEF Done
  <2>2. Done(c, r)' = Handled(r) \cup {e \in DoneOfBatch(c) \cup {event(c)} : e.row = r}
    BY <1>3, <1>4, <2>1
  <2>3. Done(c, r) = Handled(r) \cup {e \in DoneOfBatch(c) : e.row = r}
    BY DEF Done
  <2> HIDE DEF event
  <2> QED BY <2>2, <2>3
<1> QED BY <1>3, <1>4, <1>5

\* At its end a batch is what its contract's cursor moves past.
LEMMA HandledByCommit ==
    ASSUME TypeInv, NEW c \in ChainIds, NEW r, IsBatchOf(c, r), batch[c] # <<>>, at[c] > Len(batch[c]),
           BatchesEndWithBlocks, reorged_blocks = {}, CommitTransaction(c)
    PROVE  /\ next_block_number_to_handle_from' = Put(next_block_number_to_handle_from, r, CursorAfter(c))
           /\ Handled(r)' = Done(c, r)
           /\ DoneOfBatch(c) = ToSet(batch[c]) /\ \A e \in DoneOfBatch(c) : e.row = r
           /\ \A q \in ContractAddresses : q # r => Handled(q)' = Handled(q)
<1> DEFINE n == Len(batch[c])
           last == batch[c][n]
           from == next_block_number_to_handle_from[r]
<1>1. n \in Nat /\ n \in 1..n /\ DOMAIN batch[c] = 1..n /\ at[c] \in Nat
  BY EmptyByLength DEF TypeInv, Types, SubtaskTypes
<1>2. /\ last \in Events /\ last.row = r /\ from <= last.block_number
      /\ from \in Nat /\ last.block_number \in Nat
  BY <1>1, BatchEvents, Constants DEF IsBatchOf, TypeInv, Types, TableTypes
<1>3. next_block_number_to_handle_from' = Put(next_block_number_to_handle_from, r, last.block_number + 1)
      /\ last = Last(batch[c]) /\ CursorAfter(c) = last.block_number + 1
  BY <1>2 DEF CommitTransaction, Last, CursorAfter
<1>4. UNCHANGED fork
  BY DEF CommitTransaction, ingester
<1>5. /\ next_block_number_to_handle_from'[r] = last.block_number + 1
      /\ \A q \in ContractAddresses : q # r => next_block_number_to_handle_from'[q] = next_block_number_to_handle_from[q]
  BY <1>3 DEF Put, IsBatchOf, TypeInv, Types, TableTypes
<1>6. DoneOfBatch(c) = {batch[c][i] : i \in 1..n}
  BY <1>1 DEF DoneOfBatch
<1>7. DoneOfBatch(c) = ToSet(batch[c]) /\ \A e \in DoneOfBatch(c) : e.row = r
  BY <1>1, <1>6, BatchEvents DEF ToSet
<1>8. Handled(r)' = {e \in Events : e.row = r /\ IsStored(e) /\ e.block_number < last.block_number + 1}
  BY <1>4, <1>5 DEF Handled, IsStored
<1>9. \A e \in Events : e.block_number \in Nat
  BY Constants
<1>10. ASSUME NEW e \in DoneOfBatch(c)
       PROVE  e \in Handled(r)'
  <2>1. PICK i \in 1..n : e = batch[c][i]
    BY <1>6
  <2>2. e \in Events /\ e \in Stored(r, from) /\ (i < n => Precedes(e, last))
    BY <1>1, <2>1, BatchEvents
  <2>3. e.block_number <= last.block_number
    <3>1. CASE i = n
      BY <1>2, <2>1, <3>1
    <3>2. CASE i < n
      BY <1>2, <1>9, <2>2, <3>2 DEF Precedes
    <3> QED BY <1>1, <3>1, <3>2
  <2> QED BY <1>2, <1>8, <1>9, <2>2, <2>3 DEF Stored
<1>11. Handled(r) \subseteq Handled(r)'
  BY <1>2, <1>8, <1>9 DEF Handled
<1>12. ASSUME NEW e \in Handled(r)', e \notin Handled(r)
       PROVE  e \in DoneOfBatch(c)
  <2>1. e \in Events /\ e.row = r /\ IsStored(e) /\ e.block_number <= last.block_number
    BY <1>2, <1>8, <1>9
  <2>2. e \in Stored(r, from)
    BY <1>2, <1>9, <1>12, <2>1 DEF Stored, Handled
  <2>3. CASE e.block_number < last.block_number
    <3>1. Precedes(e, batch[c][n])
      BY <2>3 DEF Precedes
    <3>2. ASSUME NEW i \in 1..n, Precedes(e, batch[c][i])
          PROVE  \E j \in 1..n : j < i /\ batch[c][j] = e
      <4>1. e \in Stored(r, next_block_number_to_handle_from[r]) /\ i \in 1..Len(batch[c])
        BY <2>2
      <4>2. \E j \in 1..Len(batch[c]) : j < i /\ batch[c][j] = e
        BY <3>2, <4>1, BatchEvents
      <4> QED BY <4>2
    <3>3. \E j \in 1..n : batch[c][j] = e
      BY <1>1, <3>1, <3>2
    <3> QED BY <1>6, <3>3
  <2>4. CASE e.block_number = last.block_number
    <3>1. last \in ToSet(batch[c])
      BY <1>1 DEF ToSet
    <3>2. e \in ToSet(batch[c])
      BY <1>2, <2>1, <2>4, <3>1 DEF BatchesEndWithBlocks
    <3> QED BY <1>7, <3>2
  <2> QED BY <1>2, <1>9, <2>1, <2>3, <2>4
<1>13. Handled(r)' = Done(c, r)
  <2>1. Done(c, r) = Handled(r) \cup DoneOfBatch(c)
    BY <1>7 DEF Done
  <2> QED BY <1>10, <1>11, <1>12, <2>1
<1>14. \A q \in ContractAddresses : q # r => Handled(q)' = Handled(q)
  BY <1>4, <1>5 DEF Handled, IsStored
<1> QED BY <1>3, <1>7, <1>13, <1>14

-----------------------------------------------------------------------------
(* Rows that concern one contract *)

OwnRows(V, c) == {v \in V : ~ IsShared(v) /\ v.event.row.chain_id = c}

\* Whether rows match is up to the rows of contract and chain states of the chain.
LEMMA SameRows ==
    ASSUME NEW r, NEW V, NEW W, NEW events,
           OwnRows(V, r.chain_id) = OwnRows(W, r.chain_id), MatchesAll(V, r, events)
    PROVE  MatchesAll(W, r, events)
<1> SUFFICES ASSUME NEW key \in Keys, NEW table \in OwnTables(r)
             PROVE  RowsOf(W, r, table, key) = RowsOf(V, r, table, key)
  BY DEF MatchesAll, Matches
<1>1. KindOf[table] # "MultiChainState"
  BY DEF OwnTables
<1>2. \A U : RowsOf(U, r, table, key) = RowsOf(OwnRows(U, r.chain_id), r, table, key)
  BY <1>1 DEF RowsOf, OwnRows, IsShared
<1> QED BY <1>2

-----------------------------------------------------------------------------
(* Before the first re-organization *)

ChainMatches(c) ==
    /\ CursorsFresh(c) /\ TransactionMatches(c)
    /\ \A r \in ContractAddresses : r.chain_id = c => MatchesAll(views, r, Handled(r))

LEMMA MatchByChains == MatchInv <=> (reorged_blocks = {} => \A c \in ChainIds : ChainMatches(c))
<1>1. \A r \in ContractAddresses : r.chain_id \in ChainIds
  BY Constants
<1> QED BY <1>1 DEF MatchInv, ChainMatches

\* The loop has nothing to do but the deferred mutations.
LEMMA BeforeReorgs ==
    ASSUME StayInv, reorged_blocks = {}
    PROVE  /\ handled_reorged_blocks = {} /\ Contained
           /\ OneStatePerGroup /\ OwnTransactions /\ HeldStillThere /\ TypeInv
           /\ earliest = {} /\ txn[Loop] = EmptyTxn
           /\ pc[Loop] \in {"load", "consume", "delete", "insert", "dead"}
<1>1. handled_reorged_blocks = {} /\ earliest = {}
  BY DEF StayInv, RoundOpen, ReorgIds
<1>2. pc[Loop] \in {"load", "consume", "delete", "insert", "dead"}
  BY <1>1, Constants DEF StayInv, RoundOpen, TypeInv, Control, ControlOfTask
<1>3. txn[Loop] = EmptyTxn
  BY <1>2, Constants DEF StayInv, TypeInv, Control, ControlOfTask
<1> QED BY <1>1, <1>2, <1>3 DEF StayInv, Contained

LEMMA NoReorgStep ==
    ASSUME StayInv, [Next]_vars, reorged_blocks' = {}
    PROVE  /\ reorged_blocks = {} /\ UNCHANGED fork
           /\ \A c \in ChainIds : ~ ReorgChain(c)
           /\ ~ CommitReorg
<1>1. \/ \E c \in ChainIds : ReorgChain(c)
      \/ UNCHANGED <<fork, reorged_blocks>>
  <2>1. ASSUME NEW c \in ChainIds, HandleEvents(c)  PROVE UNCHANGED <<fork, reorged_blocks>>
    BY <2>1, SubtaskStepKeeps DEF StayInv, ingester
  <2>2. CASE HandleReorgsAndDeferred
    BY <2>2, LoopStepKeeps DEF StayInv, ingester
  <2> QED BY <2>1, <2>2 DEF Next, vars, PruneStateVersions, Crash, AbortDeadlocked, ingester
<1>2. ASSUME NEW c \in ChainIds, ReorgChain(c)  PROVE reorged_blocks' # {}
  BY <1>2 DEF ReorgChain
<1>3. UNCHANGED <<fork, reorged_blocks>>
  BY <1>1, <1>2
<1>4. ~ CommitReorg
  BY <1>3, BeforeReorgs DEF CommitReorg
<1> QED BY <1>2, <1>3, <1>4

LEMMA StoredKept ==
    ASSUME UNCHANGED fork
    PROVE  /\ \A r, from : LoadEvents(r, from)' = LoadEvents(r, from)
           /\ \A r : next_block_number_to_handle_from'[r] = next_block_number_to_handle_from[r]
                     => Handled(r)' = Handled(r)
BY DEF LoadEvents, IsStored, Handled

\* A chain is as it was where another task has moved, and left the rows of its states.
LEMMA OthersMatch ==
    ASSUME TypeInv, NEW c \in ChainIds, ChainMatches(c), IsKept(c), IsKeptSubtask(c), UNCHANGED fork,
           OwnRows(views', c) = OwnRows(views, c),
           \A r \in ContractAddresses : r.chain_id = c =>
               next_block_number_to_handle_from'[r] = next_block_number_to_handle_from[r]
    PROVE  ChainMatches(c)'
<1>1. ASSUME NEW r \in ContractAddresses, r.chain_id = c
      PROVE  Handled(r)' = Handled(r) /\ Done(c, r)' = Done(c, r)
  <2>1. Handled(r)' = Handled(r)
    BY <1>1, StoredKept
  <2>2. DoneOfBatch(c)' = DoneOfBatch(c)
    BY DEF DoneOfBatch, IsKeptSubtask
  <2> QED BY <2>1, <2>2 DEF Done
<1>2. ASSUME NEW r \in ContractAddresses, r.chain_id = c
      PROVE  MatchesAll(views, r, Handled(r))'
  <2>1. MatchesAll(views, r, Handled(r))
    BY <1>2 DEF ChainMatches
  <2>2. MatchesAll(views', r, Handled(r))
    BY <1>2, <2>1, SameRows
  <2> QED BY <1>1, <1>2, <2>2 DEF MatchesAll, Matches
<1>3. CursorsFresh(c)'
  <2>1. \A a \in streamed'[c] : a.from = next_block_number_to_handle_from'[a.row]
    <3>1. \A a \in streamed[c] : a.row \in ContractAddresses /\ a.row.chain_id = c
      BY DEF TypeInv, Types, SubtaskTypes, Control, ControlOfSubtask
    <3>2. streamed'[c] = streamed[c]
      BY DEF IsKeptSubtask
    <3> QED BY <3>1, <3>2 DEF ChainMatches, CursorsFresh
  <2>2. ASSUME NEW r \in ContractAddresses, IsBatchOf(c, r)  PROVE IsBatchOf(c, r)'
    <3>1. /\ r.chain_id = c /\ batch[c] = LoadEvents(r, next_block_number_to_handle_from[r])
          /\ \A a \in streamed[c] : a.row # r
      BY <2>2 DEF IsBatchOf
    <3>2. next_block_number_to_handle_from'[r] = next_block_number_to_handle_from[r]
      BY <2>2, <3>1 DEF IsBatchOf
    <3>3. LoadEvents(r, next_block_number_to_handle_from[r])' = LoadEvents(r, next_block_number_to_handle_from[r])
      BY <3>2 DEF LoadEvents, IsStored
    <3> QED BY <2>2, <3>1, <3>2, <3>3 DEF IsBatchOf, IsKeptSubtask
  <2> QED BY <2>1, <2>2 DEF ChainMatches, CursorsFresh, IsKeptSubtask
<1>4. OwnRows(Pending(c)', c) = OwnRows(Pending(c), c)
  <2>1. OwnRows(VisibleViews(c)', c) = OwnRows(VisibleViews(c), c)
    BY DEF VisibleViews, OwnRows, IsKept, IsShared
  <2>2. CASE refreshing[c] = <<>>
    BY <2>1, <2>2 DEF Pending, IsKept
  <2>3. CASE refreshing[c] # <<>>
    BY <2>1, <2>3 DEF Pending, IsKept, OwnRows, IsShared, NewViews
  <2> QED BY <2>2, <2>3
<1>5. TransactionMatches(c)'
  <2>1. ASSUME IsActive(c)', NEW r \in ContractAddresses, r.chain_id = c
        PROVE  MatchesAll(Pending(c), r, Done(c, r))'
    <3>1. MatchesAll(Pending(c), r, Done(c, r))
      BY <2>1 DEF ChainMatches, TransactionMatches, IsActive, IsKept
    <3>2. MatchesAll(Pending(c)', r, Done(c, r))
      BY <1>4, <2>1, <3>1, SameRows
    <3> QED BY <1>1, <2>1, <3>2 DEF MatchesAll, Matches
  <2>2. pc'[c] = "waiting" => IsShared(Head(refreshing[c]).view)'
    BY DEF ChainMatches, TransactionMatches, IsKept, IsShared
  <2> QED BY <2>1, <2>2 DEF TransactionMatches
<1> QED BY <1>2, <1>3, <1>5 DEF ChainMatches

-----------------------------------------------------------------------------
(* The steps of a subtask *)

IsEventOf(e, r, table, key) == r = e.row /\ table = e.table /\ key = e.key

\* What a state of r is to be once the event at hand has been applied to what V has.
Applied(V, W, e) ==
    LET old == RowsOf(V, e.row, e.table, e.key)
        new == RowsOf(W, e.row, e.table, e.key)
    IN  /\ e.op = "transfer" =>
              \E v \in new :
                  /\ new = {v}
                  /\ \/ old = {} /\ v.applied = {e}
                     \/ \E w \in old : old = {w} /\ v.applied = w.applied \cup {e}
        /\ e.op = "burn" => new = {}

\* Going on to the next event keeps the match if the event at hand is applied to the state
\* it is about and no other state changes.
LEMMA NextMatches ==
    ASSUME TypeInv, NEW c \in ChainIds, CursorsFresh(c), at[c] <= Len(batch[c]),
           at'[c] = at[c] + 1, batch'[c] = batch[c], UNCHANGED <<fork, next_block_number_to_handle_from>>,
           NEW V, NEW W,
           \A r \in ContractAddresses : r.chain_id = c => MatchesAll(V, r, Done(c, r)),
           event(c).table \in OwnTables(event(c).row) => Applied(V, W, event(c)),
           \A r \in ContractAddresses, key \in Keys : \A table \in OwnTables(r) :
               r.chain_id = c /\ ~ IsEventOf(event(c), r, table, key)
               => RowsOf(W, r, table, key) = RowsOf(V, r, table, key)
    PROVE  \A r \in ContractAddresses : r.chain_id = c => MatchesAll(W, r, Done(c, r)')
<1> DEFINE e == event(c)
<1>1. /\ e \in Events /\ e.row.chain_id = c
      /\ \A f \in Done(c, e.row) : Precedes(f, e)
  <2>1. e \in Events /\ at[c] \in 1..Len(batch[c])
    BY EventAtHand DEF TypeInv
  <2>2. batch[c] # <<>>
    BY <2>1
  <2>3. PICK q \in ContractAddresses : IsBatchOf(c, q)
    BY <2>2 DEF CursorsFresh
  <2>4. e.row = q /\ \A f \in Done(c, q) : Precedes(f, e)
    BY <2>3, DoneBefore
  <2> QED BY <2>1, <2>3, <2>4 DEF IsBatchOf
<1>2. \A r : Done(c, r)' = Done(c, r) \cup {f \in {e} : f.row = r}
  BY DoneOfNext
<1>3. Done(c, e.row) \in SUBSET Events /\ e.op \in {"transfer", "burn"}
  BY <1>1, DoneFields, Constants
<1> HIDE DEF e
<1> SUFFICES ASSUME NEW r \in ContractAddresses, r.chain_id = c, NEW key \in Keys, NEW table \in OwnTables(r)
             PROVE  Matches(W, r, Done(c, r)', table, key)
  BY DEF MatchesAll
<1>4. Matches(V, r, Done(c, r), table, key)
  BY DEF MatchesAll
<1>5. CASE ~ IsEventOf(e, r, table, key)
  <2>1. RowsOf(W, r, table, key) = RowsOf(V, r, table, key)
    BY <1>5 DEF e
  <2>2. Counted(Done(c, r)', table, key) = Counted(Done(c, r), table, key)
    <3>1. CASE r # e.row
      <4>1. {f \in {e} : f.row = r} = {}
        BY <3>1
      <4>2. Done(c, r)' = Done(c, r) \cup {f \in {e} : f.row = r}
        BY <1>2
      <4>3. Done(c, r)' = Done(c, r)
        BY <4>1, <4>2
      <4> QED BY <4>3
    <3>2. CASE r = e.row
      <4>1. e.table # table \/ e.key # key
        BY <1>5, <3>2 DEF IsEventOf
      <4>2. Done(c, r)' = Done(c, r) \cup {e}
        BY <1>2, <3>2
      <4> QED BY <4>1, <4>2, CountedOther
    <3> QED BY <3>1, <3>2
  <2> QED BY <1>4, <2>1, <2>2 DEF Matches
<1>6. CASE IsEventOf(e, r, table, key)
  <2>1. r = e.row /\ table = e.table /\ key = e.key
    BY <1>6 DEF IsEventOf
  <2>2. Applied(V, W, e)
    BY <2>1 DEF e
  <2>3. Done(c, r)' = Done(c, r) \cup {e}
    BY <1>2, <2>1
  <2> DEFINE old == RowsOf(V, r, table, key)
             new == RowsOf(W, r, table, key)
             counted == Counted(Done(c, r), table, key)
             countedNext == Counted(Done(c, r)', table, key)
  <2>4. /\ e.op = "transfer" => countedNext = counted \cup {e}
        /\ e.op = "burn" => countedNext = {}
    BY <1>1, <1>3, <2>1, <2>3, CountedNext
  <2>5. IF counted = {} THEN old = {} ELSE \E v \in old : old = {v} /\ v.applied = counted
    BY <1>4 DEF Matches
  <2>6. /\ e.op = "transfer" =>
              \E v \in new : /\ new = {v}
                             /\ \/ old = {} /\ v.applied = {e}
                                \/ \E w \in old : old = {w} /\ v.applied = w.applied \cup {e}
        /\ e.op = "burn" => new = {}
    BY <2>1, <2>2 DEF Applied
  <2>7. IF countedNext = {} THEN new = {} ELSE \E v \in new : new = {v} /\ v.applied = countedNext
    <3> HIDE DEF old, new, counted, countedNext
    <3>1. CASE e.op = "burn"
      BY <2>4, <2>6, <3>1
    <3>2. CASE e.op = "transfer"
      <4>1. countedNext = counted \cup {e} /\ countedNext # {}
        BY <2>4, <3>2
      <4>2. PICK v \in new : /\ new = {v}
                             /\ \/ old = {} /\ v.applied = {e}
                                \/ \E w \in old : old = {w} /\ v.applied = w.applied \cup {e}
        BY <2>6, <3>2
      <4>3. v.applied = countedNext
        <5>1. CASE old = {}
          BY <2>5, <4>1, <4>2, <5>1
        <5>2. CASE old # {}
          BY <2>5, <4>1, <4>2, <5>2
        <5> QED BY <5>1, <5>2
      <4> QED BY <4>1, <4>2, <4>3
    <3> QED BY <1>3, <3>1, <3>2
  <2> QED BY <2>7 DEF Matches
<1> QED BY <1>5, <1>6

\* The batch and what is streamed stay as they are.
LEMMA CursorsKept ==
    ASSUME NEW c \in ChainIds, CursorsFresh(c),
           UNCHANGED <<fork, next_block_number_to_handle_from>>,
           streamed'[c] = streamed[c], batch'[c] = batch[c]
    PROVE  CursorsFresh(c)'
BY StoredKept DEF CursorsFresh, IsBatchOf

\* The committed rows and cursors stay as they are.
LEMMA CommittedKept ==
    ASSUME NEW c \in ChainIds, ChainMatches(c),
           UNCHANGED <<fork, next_block_number_to_handle_from, views>>
    PROVE  \A r \in ContractAddresses : r.chain_id = c => MatchesAll(views, r, Handled(r))'
BY StoredKept DEF ChainMatches, MatchesAll, Matches

\* Rows of a table that is a contract's own are found by its handler, and no others.
LEMMA OwnTableRows ==
    ASSUME TypeInv, NEW c \in ChainIds, NEW e \in Events, e.row.chain_id = c, e.table \in OwnTables(e.row)
    PROVE  /\ ReadMany(c, e) = {} => RowsOf(VisibleViews(c), e.row, e.table, e.key) = {}
           /\ \A v \in VisibleViews(c) : v.table = e.table /\ v.event.row.chain_id = c
                                         /\ (KindOf[e.table] = "ContractState" => v.event.row = e.row)
                                         => v.event.row = e.row
<1>1. KindOf[e.table] \in {"ContractState", "ChainState"}
  BY DEF OwnTables
<1>2. RowsOf(VisibleViews(c), e.row, e.table, e.key) \subseteq ReadMany(c, e)
  BY <1>1 DEF RowsOf, ReadMany, IsInContext, IsOfContract, IsOfChain
<1>3. ASSUME NEW v \in VisibleViews(c), v.table = e.table, v.event.row.chain_id = c,
             KindOf[e.table] = "ChainState"
      PROVE  v.event.row = e.row
  <2>1. v \in ViewsInUse /\ v \in TypedViews
    BY VisibleInUse, ViewsInUseTyped, Constants DEF TypeInv
  <2>2. v.event \in Events /\ v.event.table = e.table
    BY <1>3, <2>1, ViewFields DEF TypeInv, InUse
  <2> QED BY <1>3, <2>2 DEF OwnTables
<1> QED BY <1>1, <1>2, <1>3

LEMMA StreamMatches ==
    ASSUME StayInv, NEW c \in ChainIds, ChainMatches(c), StreamContractAddresses(c)
    PROVE  ChainMatches(c)'
<1> USE DEF StayInv, TypeInv
<1>1. /\ pc[c] = "stream" /\ pc'[c] = "stream" /\ batch'[c] = <<>>
      /\ UNCHANGED <<fork, next_block_number_to_handle_from, views>>
  BY DEF StreamContractAddresses, ingester, tables, Control, ControlOfSubtask
<1>2. \A a \in streamed'[c] : a.from = next_block_number_to_handle_from[a.row]
  BY DEF StreamContractAddresses, Put, Types, SubtaskTypes
<1>3. CursorsFresh(c)'
  BY <1>1, <1>2 DEF CursorsFresh
<1>4. TransactionMatches(c)'
  BY <1>1 DEF TransactionMatches, IsActive
<1> QED BY <1>1, <1>3, <1>4, CommittedKept DEF ChainMatches

LEMMA BeginMatches ==
    ASSUME StayInv, NEW c \in ChainIds, ChainMatches(c), BeginTransaction(c)
    PROVE  ChainMatches(c)'
<1> USE DEF StayInv, TypeInv
<1>1. PICK a \in streamed[c] : /\ streamed' = Put(streamed, c, streamed[c] \ {a})
                               /\ batch' = Put(batch, c, LoadEvents(a.row, a.from))
  BY DEF BeginTransaction
<1>2. /\ streamed'[c] = streamed[c] \ {a} /\ batch'[c] = LoadEvents(a.row, a.from)
      /\ at'[c] = 1 /\ pc'[c] = "handle"
      /\ UNCHANGED <<fork, next_block_number_to_handle_from, views, txn, refreshing>>
  BY <1>1, Constants DEF BeginTransaction, ingester, tables, execution, Put, Types, SubtaskTypes, ExecutionTypes
<1>3. /\ a.row \in ContractAddresses /\ a.row.chain_id = c
      /\ a.from = next_block_number_to_handle_from[a.row]
      /\ \A b \in streamed[c] : b = [row |-> b.row, from |-> next_block_number_to_handle_from[b.row]]
  BY DEF ChainMatches, CursorsFresh, Types, SubtaskTypes, Control, ControlOfSubtask
<1>4. \A b \in streamed'[c] : b.row # a.row /\ b.from = next_block_number_to_handle_from[b.row]
  BY <1>2, <1>3
<1>5. CursorsFresh(c)'
  <2>1. IsBatchOf(c, a.row)'
    <3>1. batch'[c] = LoadEvents(a.row, next_block_number_to_handle_from[a.row])
      BY <1>2, <1>3
    <3>2. LoadEvents(a.row, next_block_number_to_handle_from[a.row])
          = LoadEvents(a.row, next_block_number_to_handle_from[a.row])'
      BY <1>2 DEF LoadEvents, IsStored
    <3> QED BY <1>3, <1>4, <3>1, <3>2 DEF IsBatchOf
  <2> QED BY <1>2, <1>3, <1>4, <2>1 DEF CursorsFresh
<1>6. TransactionMatches(c)'
  <2>1. refreshing[c] = <<>> /\ txn[c] = EmptyTxn
    BY Constants DEF BeginTransaction, Control, ControlOfTask
  <2>2. Pending(c)' = views
    BY <1>2, <2>1, EmptyTxnFields DEF Pending, VisibleViews
  <2>3. DoneOfBatch(c)' = {}
    BY <1>2 DEF DoneOfBatch
  <2>4. ASSUME NEW r \in ContractAddresses, r.chain_id = c
        PROVE  MatchesAll(Pending(c), r, Done(c, r))'
    <3>1. Done(c, r)' = Handled(r)
      BY <1>2, <2>3, StoredKept DEF Done
    <3>2. MatchesAll(views, r, Handled(r))
      BY <2>4 DEF ChainMatches
    <3> QED BY <2>2, <3>1, <3>2 DEF MatchesAll, Matches
  <2> QED BY <1>2, <2>4 DEF TransactionMatches
<1> QED BY <1>2, <1>5, <1>6, CommittedKept DEF ChainMatches

\* A panic leaves what is committed and loaded.
LEMMA PanicMatches ==
    ASSUME StayInv, NEW c \in ChainIds, ChainMatches(c), Panic(c),
           UNCHANGED <<fork, next_block_number_to_handle_from, views, streamed, batch>>
    PROVE  ChainMatches(c)'
<1>1. pc'[c] = "dead"
  BY PanicEffect, Constants DEF StayInv, TypeInv, Types
<1>2. TransactionMatches(c)'
  BY <1>1 DEF TransactionMatches, IsActive
<1> QED BY <1>2, CursorsKept, CommittedKept DEF ChainMatches

\* A step that keeps the rows and cursors committed, and the batch, and after which what the
\* subtask sees matches what it has done.
LEMMA MatchesAfter ==
    ASSUME NEW c \in ChainIds, ChainMatches(c),
           UNCHANGED <<fork, next_block_number_to_handle_from, views>>,
           streamed'[c] = streamed[c], batch'[c] = batch[c], pc'[c] # "waiting",
           NEW W, Pending(c)' = W,
           \A r \in ContractAddresses : r.chain_id = c => MatchesAll(W, r, Done(c, r)')
    PROVE  ChainMatches(c)'
<1>1. \A r \in ContractAddresses : r.chain_id = c => MatchesAll(Pending(c), r, Done(c, r))'
  BY DEF MatchesAll, Matches
<1>2. TransactionMatches(c)'
  BY <1>1 DEF TransactionMatches
<1> QED BY <1>2, CursorsKept, CommittedKept DEF ChainMatches

\* While no refresh is due, a subtask sees what it is to match.
LEMMA PendingIsVisible ==
    ASSUME TypeInv, NEW c \in ChainIds, pc[c] \in {"handle", "mutate", "defer"}, ChainMatches(c)
    PROVE  /\ Pending(c) = VisibleViews(c) /\ refreshing[c] = <<>>
           /\ \A r \in ContractAddresses : r.chain_id = c => MatchesAll(VisibleViews(c), r, Done(c, r))
<1>1. refreshing[c] = <<>>
  BY Constants DEF TypeInv, Control, ControlOfTask
<1>2. Pending(c) = VisibleViews(c)
  BY <1>1 DEF Pending
<1>3. IsActive(c)
  BY DEF IsActive
<1> QED BY <1>1, <1>2, <1>3 DEF ChainMatches, TransactionMatches

LEMMA AddDeferredMatches ==
    ASSUME StayInv, NEW c \in ChainIds, ChainMatches(c), AddDeferred(c)
    PROVE  ChainMatches(c)'
<1> USE DEF StayInv, TypeInv
<1>1. /\ pc[c] = "defer" /\ pc'[c] = "handle" /\ at'[c] = at[c] + 1
      /\ streamed' = streamed /\ batch' = batch
      /\ UNCHANGED <<fork, next_block_number_to_handle_from, views, txn, refreshing>>
  BY Constants DEF AddDeferred, ingester, tables, execution, Put, Types, SubtaskTypes, ExecutionTypes
<1>2. at[c] <= Len(batch[c]) /\ KindOf[event(c).table] = "MultiChainState"
  BY <1>1 DEF Control, ControlOfSubtask
<1>3. /\ \A r \in ContractAddresses : r.chain_id = c => MatchesAll(VisibleViews(c), r, Done(c, r))
      /\ refreshing[c] = <<>>
  BY <1>1, PendingIsVisible
<1>4. \A r : event(c).table \notin OwnTables(r)
  BY <1>2 DEF OwnTables
<1>5. CursorsFresh(c)
  BY DEF ChainMatches
<1>6. \A r \in ContractAddresses : r.chain_id = c => MatchesAll(VisibleViews(c), r, Done(c, r)')
  <2> HIDE DEF StayInv, TypeInv
  <2>1. TypeInv
    BY DEF StayInv
  <2> DEFINE seen == VisibleViews(c)
  <2>2. \A r \in ContractAddresses : r.chain_id = c => MatchesAll(seen, r, Done(c, r))
    BY <1>3
  <2>3. batch'[c] = batch[c] /\ UNCHANGED <<fork, next_block_number_to_handle_from>>
    BY <1>1
  <2> HIDE DEF seen
  <2>4. \A r \in ContractAddresses : r.chain_id = c => MatchesAll(seen, r, Done(c, r)')
    BY <1>1, <1>2, <1>4, <1>5, <2>1, <2>2, <2>3, NextMatches
  <2> QED BY <2>4 DEF seen
<1>7. Pending(c)' = VisibleViews(c)
  BY <1>1, <1>3 DEF Pending, VisibleViews
<1> QED BY <1>1, <1>6, <1>7, MatchesAfter

LEMMA ReadOneMatches ==
    ASSUME StayInv, NEW c \in ChainIds, ChainMatches(c), ReadOne(c)
    PROVE  ChainMatches(c)'
<1> DEFINE e == event(c)
           seen == VisibleViews(c)
           found == ReadMany(c, e)
<1>1. /\ pc[c] = "handle" /\ at[c] <= Len(batch[c])
      /\ streamed' = streamed /\ batch' = batch
      /\ UNCHANGED <<fork, next_block_number_to_handle_from, views>>
  BY DEF ReadOne, ingester, tables
<1>2. TypeInv /\ Types /\ ExecutionTypes /\ SubtaskTypes /\ c \in Tasks
  BY Constants DEF StayInv, TypeInv, Types
<1>3. e \in Events /\ e.row.chain_id = c /\ e.row \in ContractAddresses
  BY <1>1, <1>2, EventAtHand, Constants DEF TypeInv
<1>4. /\ \A r \in ContractAddresses : r.chain_id = c => MatchesAll(seen, r, Done(c, r))
      /\ refreshing[c] = <<>>
  BY <1>1, <1>2, PendingIsVisible
<1>5. CursorsFresh(c)
  BY DEF ChainMatches
<1>6. CASE pc' = Put(pc, c, "mutate") /\ UNCHANGED <<execution, at>>
  <2>1. pc'[c] = "mutate"
    BY <1>2, <1>6 DEF Put, ExecutionTypes
  <2>2. Pending(c)' = seen
    BY <1>1, <1>4, <1>6 DEF Pending, VisibleViews, execution
  <2>3. \A r : Done(c, r)' = Done(c, r)
    BY <1>1, <1>6, StoredKept DEF Done, DoneOfBatch
  <2>4. \A r \in ContractAddresses : r.chain_id = c => MatchesAll(seen, r, Done(c, r)')
    BY <1>4, <2>3
  <2> QED BY <1>1, <2>1, <2>2, <2>4, MatchesAfter
<1>7. ASSUME at' = Put(at, c, at[c] + 1), NEW W, Pending(c)' = W, pc'[c] # "waiting",
             e.table \in OwnTables(e.row) => Applied(seen, W, e),
             \A r \in ContractAddresses, key \in Keys : \A table \in OwnTables(r) :
                 r.chain_id = c /\ ~ IsEventOf(e, r, table, key)
                 => RowsOf(W, r, table, key) = RowsOf(seen, r, table, key)
      PROVE  ChainMatches(c)'
  <2>1. at'[c] = at[c] + 1 /\ batch'[c] = batch[c] /\ UNCHANGED <<fork, next_block_number_to_handle_from>>
    BY <1>1, <1>2, <1>7 DEF Put, SubtaskTypes
  <2>2. /\ e.table \in OwnTables(e.row) => Applied(seen, W, e)
        /\ \A r \in ContractAddresses, key \in Keys : \A table \in OwnTables(r) :
              r.chain_id = c /\ ~ IsEventOf(e, r, table, key)
              => RowsOf(W, r, table, key) = RowsOf(seen, r, table, key)
    BY <1>7
  <2> HIDE DEF seen
  <2>3. \A r \in ContractAddresses : r.chain_id = c => MatchesAll(W, r, Done(c, r)')
    BY <1>1, <1>2, <1>4, <1>5, <2>1, <2>2, NextMatches
  <2> QED BY <1>1, <1>7, <2>3, MatchesAfter
<1>8. found = {} /\ e.table \in OwnTables(e.row) => RowsOf(seen, e.row, e.table, e.key) = {}
  BY <1>2, <1>3, OwnTableRows
<1>9. CASE found = {} /\ e.op = "burn" /\ UNCHANGED <<execution, pc>> /\ at' = Put(at, c, at[c] + 1)
  <2>1. Pending(c)' = seen /\ pc'[c] # "waiting"
    BY <1>1, <1>4, <1>9 DEF Pending, VisibleViews, execution
  <2>2. e.table \in OwnTables(e.row) => Applied(seen, seen, e)
    <3> HIDE DEF seen, e
    <3> QED BY <1>8, <1>9 DEF Applied
  <2> QED BY <1>7, <1>9, <2>1, <2>2
<1>10. CASE found = {} /\ e.op = "transfer" /\ AppendVersion(c, CreatedVersion(e)) /\ at' = Put(at, c, at[c] + 1)
  <2> DEFINE created == CreatedVersion(e)
             W == seen \cup {created.view}
  <2>1. NewGroup \in Nat /\ NewGroup \notin GroupsInUse
    BY <1>2, NewGroupIsFresh DEF TypeInv
  <2>2. /\ created \in TypedVersions
        /\ created.view.table = e.table /\ created.view.key = e.key
        /\ created.view.group = NewGroup /\ created.view.event = e
        /\ created.view.applied = {e} /\ created.is_deleted = FALSE
    BY <1>3, <2>1, CreatedVersionOfEvent
  <2>3. CASE Panic(c)
    BY <1>1, <2>3, PanicMatches
  <2>4. CASE ~ Panic(c)
    <3>1. /\ pc'[c] = "refresh" /\ refreshing'[c] = <<created>>
          /\ txn'[c].inserted = txn[c].inserted /\ txn'[c].deleted = txn[c].deleted
      BY <1>2, <1>10, <2>2, <2>4, AppendVersionEffect
    <3>2. Head(refreshing'[c]) = created /\ refreshing'[c] # <<>>
      BY <3>1
    <3>3. NewViews(created) = {created.view}
      BY <2>2 DEF NewViews
    <3>4. VisibleViews(c)' = seen
      BY <1>1, <3>1 DEF VisibleViews
    <3>5. \A v \in seen : v.group # NewGroup
      <4>1. seen \subseteq ViewsInUse
        BY <1>2, VisibleInUse
      <4> QED BY <2>1, <4>1 DEF GroupsInUse
    <3> HIDE DEF created
    <3>6. Pending(c)' = {v \in seen : v.group # created.view.group} \cup {created.view}
      BY <3>2, <3>3, <3>4 DEF Pending, NewViews
    <3>7. Pending(c)' = W /\ pc'[c] # "waiting"
      BY <2>2, <3>1, <3>5, <3>6
    <3> HIDE DEF seen, e
    <3>8. \A r, table, key : ~ IsEventOf(e, r, table, key) => RowsOf(W, r, table, key) = RowsOf(seen, r, table, key)
      BY <2>2 DEF RowsOf, IsEventOf
    <3>9. e.table \in OwnTables(e.row) => Applied(seen, W, e)
      <4>1. RowsOf(W, e.row, e.table, e.key) = RowsOf(seen, e.row, e.table, e.key) \cup {created.view}
        BY <2>2 DEF RowsOf
      <4>2. e.op = "transfer" /\ e.op # "burn"
        BY <1>10
      <4> HIDE DEF W
      <4> QED BY <1>8, <1>10, <2>2, <4>1, <4>2 DEF Applied
    <3> QED BY <1>7, <1>10, <3>7, <3>8, <3>9
  <2> QED BY <2>3, <2>4
<1> QED BY <1>6, <1>9, <1>10 DEF ReadOne

\* The state an update or delete starts from is that of the event's key; the rows of its
\* group are of no other state.
LEMMA UpdatedRows ==
    ASSUME StayInv, reorged_blocks = {}, NEW c \in ChainIds, pc[c] = "mutate",
           KindOf[event(c).table] # "MultiChainState",
           Cardinality(Complete(c, held[c], event(c))) = 1,
           NEW state \in Complete(c, held[c], event(c))
    PROVE  /\ state \in VisibleViews(c) /\ state.table = event(c).table /\ state.key = event(c).key
           /\ event(c).table \in OwnTables(event(c).row) =>
                 state \in RowsOf(VisibleViews(c), event(c).row, event(c).table, event(c).key)
           /\ \A v \in VisibleViews(c) : v.group = state.group =>
                 \A r, key : \A table \in OwnTables(r) :
                     r.chain_id = c /\ ~ IsEventOf(event(c), r, table, key)
                     => v \notin RowsOf(VisibleViews(c), r, table, key)
<1> DEFINE e == event(c)
           seen == VisibleViews(c)
           next == NextVersion(state, e).view
<1>1. TypeInv /\ Types /\ Contained /\ OneStatePerGroup /\ c \in Tasks
  BY BeforeReorgs, Constants DEF TypeInv
<1>2. /\ state \in ViewsInUse /\ state \in TypedViews /\ e \in Events
      /\ next.event = e /\ e.row.chain_id = c /\ IsSameState(next, state)
  BY <1>1, UpdatedState
<1>3. /\ next.table = state.table /\ next.key = state.key
  BY <1>2, NextVersionOfState
<1>4. state \in seen /\ state.table = e.table /\ state.key = e.key
  <2>1. held[c].table = e.table /\ held[c].key = e.key
    BY <1>1 DEF TypeInv, Control, ControlOfSubtask
  <2> QED BY <2>1 DEF Complete
<1>5. KindOf[e.table] \in {"ContractState", "ChainState"}
  BY <1>2, Constants, StatesAssumption
<1> HIDE DEF next, e, seen
<1>6. /\ KindOf[e.table] = "ContractState" => state.event.row = e.row
      /\ state.event.row.chain_id = c
  BY <1>2, <1>3, <1>4, <1>5 DEF IsSameState, IsShared
<1>7. seen \subseteq ViewsInUse
  BY <1>1, VisibleInUse DEF seen
<1>8. e.table \in OwnTables(e.row) => state.event.row = e.row
  BY <1>1, <1>2, <1>4, <1>6, OwnTableRows DEF seen
<1>9. ASSUME NEW v \in seen, v.group = state.group, NEW r, NEW key, NEW table \in OwnTables(r),
             r.chain_id = c, ~ IsEventOf(e, r, table, key), v \in RowsOf(seen, r, table, key)
      PROVE  FALSE
  <2>1. v.table = table /\ v.key = key /\ v.event.row = r
    BY <1>9 DEF RowsOf
  <2>2. IsSameState(v, state)
    BY <1>1, <1>2, <1>7, <1>9 DEF OneStatePerGroup
  <2>3. table = e.table /\ key = e.key /\ r # e.row
    BY <1>4, <1>9, <2>1, <2>2 DEF IsSameState, IsEventOf
  <2>4. CASE KindOf[e.table] = "ContractState"
    BY <1>4, <1>6, <2>1, <2>2, <2>3, <2>4 DEF IsSameState
  <2>5. CASE KindOf[e.table] = "ChainState"
    BY <1>2, <1>9, <2>3, <2>5 DEF OwnTables
  <2> QED BY <1>5, <2>4, <2>5
<1>10. e.table \in OwnTables(e.row) => state \in RowsOf(seen, e.row, e.table, e.key)
  BY <1>4, <1>8 DEF RowsOf
<1> QED BY <1>4, <1>9, <1>10 DEF e, seen

LEMMA MutateMatches ==
    ASSUME StayInv, reorged_blocks = {}, NEW c \in ChainIds, ChainMatches(c), Mutate(c)
    PROVE  ChainMatches(c)'
<1> DEFINE e == event(c)
           seen == VisibleViews(c)
           complete == Complete(c, held[c], e)
<1>1. /\ pc[c] = "mutate" /\ streamed' = streamed /\ batch' = batch
      /\ UNCHANGED <<fork, next_block_number_to_handle_from, views>>
  BY DEF Mutate, ingester, tables
<1>2. TypeInv /\ Types /\ ExecutionTypes /\ SubtaskTypes /\ c \in Tasks
  BY Constants DEF StayInv, TypeInv, Types
<1>3. at[c] <= Len(batch[c]) /\ e \in Events /\ e.row.chain_id = c
  <2>1. at[c] <= Len(batch[c])
    BY <1>1, <1>2 DEF TypeInv, Control, ControlOfSubtask
  <2> QED BY <1>2, <2>1, EventAtHand DEF TypeInv
<1>4. /\ \A r \in ContractAddresses : r.chain_id = c => MatchesAll(seen, r, Done(c, r))
      /\ refreshing[c] = <<>>
  BY <1>1, <1>2, PendingIsVisible
<1>5. CursorsFresh(c)
  BY DEF ChainMatches
<1>6. CASE Panic(c)
  BY <1>1, <1>6, PanicMatches
<1>7. CASE pc' = Put(pc, c, "defer") /\ UNCHANGED <<execution, at>>
  <2>1. pc'[c] = "defer"
    BY <1>2, <1>7 DEF Put, ExecutionTypes
  <2>2. Pending(c)' = seen
    BY <1>1, <1>4, <1>7 DEF Pending, VisibleViews, execution
  <2>3. \A r : Done(c, r)' = Done(c, r)
    BY <1>1, <1>7, StoredKept DEF Done, DoneOfBatch
  <2>4. \A r \in ContractAddresses : r.chain_id = c => MatchesAll(seen, r, Done(c, r)')
    BY <1>4, <2>3
  <2> QED BY <1>1, <2>1, <2>2, <2>4, MatchesAfter
<1>8. ASSUME KindOf[e.table] # "MultiChainState", Cardinality(complete) = 1, at' = Put(at, c, at[c] + 1),
             NEW state \in complete, AppendVersion(c, NextVersion(state, e)), ~ Panic(c)
      PROVE  ChainMatches(c)'
  <2> DEFINE next == NextVersion(state, e)
             W == {v \in seen : v.group # state.group} \cup NewViews(next)
  <2>1. /\ state \in TypedViews /\ e \in Events
    BY <1>1, <1>8, UpdatedState, BeforeReorgs
  <2>2. /\ next \in TypedVersions /\ next.view.table = state.table /\ next.view.key = state.key
        /\ next.view.group = state.group /\ next.view.event = e
        /\ next.is_deleted <=> e.op = "burn"
        /\ e.op # "burn" => next.view.applied = state.applied \cup {e}
    BY <2>1, NextVersionOfState
  <2>3. /\ state \in seen /\ state.table = e.table /\ state.key = e.key
        /\ e.table \in OwnTables(e.row) => state \in RowsOf(seen, e.row, e.table, e.key)
        /\ \A v \in seen : v.group = state.group =>
              \A r, key : \A table \in OwnTables(r) :
                  r.chain_id = c /\ ~ IsEventOf(e, r, table, key) => v \notin RowsOf(seen, r, table, key)
    BY <1>1, <1>8, UpdatedRows
  <2>4. /\ pc'[c] = "refresh" /\ refreshing'[c] = <<next>>
        /\ txn'[c].inserted = txn[c].inserted /\ txn'[c].deleted = txn[c].deleted
    BY <1>2, <1>8, <2>2, AppendVersionEffect
  <2>5. Pending(c)' = W
    <3>1. VisibleViews(c)' = seen
      BY <1>1, <2>4 DEF VisibleViews
    <3>2. Head(refreshing'[c]) = next /\ refreshing'[c] # <<>>
      BY <2>4
    <3> HIDE DEF next, seen
    <3>3. Pending(c)' = {v \in seen : v.group # next.view.group} \cup NewViews(next)
      BY <3>1, <3>2 DEF Pending, NewViews
    <3> QED BY <2>2, <3>3
  <2>6. e.op \in {"transfer", "burn"}
    BY <1>3, Constants
  <2>7. /\ e.op = "transfer" => NewViews(next) = {next.view}
        /\ e.op = "burn" => NewViews(next) = {}
    <3> HIDE DEF next, e
    <3> QED BY <2>2 DEF NewViews
  <2> HIDE DEF next, complete
  <2>8. \A r \in ContractAddresses, key \in Keys : \A table \in OwnTables(r) :
           r.chain_id = c /\ ~ IsEventOf(e, r, table, key)
           => RowsOf(W, r, table, key) = RowsOf(seen, r, table, key)
    <3> SUFFICES ASSUME NEW r \in ContractAddresses, NEW key \in Keys, NEW table \in OwnTables(r),
                        r.chain_id = c, ~ IsEventOf(e, r, table, key)
                 PROVE  RowsOf(W, r, table, key) = RowsOf(seen, r, table, key)
      OBVIOUS
    <3> HIDE DEF e, seen
    <3>1. \A v \in seen : v.group = state.group => v \notin RowsOf(seen, r, table, key)
      BY <2>3
    <3>2. NewViews(next) \subseteq {next.view}
      BY <2>6, <2>7
    <3>3. \A v \in NewViews(next) : ~ (v.table = table /\ v.key = key /\ v.event.row = r)
      BY <2>2, <2>3, <3>2 DEF IsEventOf
    <3> QED BY <3>1, <3>3 DEF RowsOf
  <2>9. e.table \in OwnTables(e.row) => Applied(seen, W, e)
    <3> SUFFICES ASSUME e.table \in OwnTables(e.row)  PROVE Applied(seen, W, e)
      OBVIOUS
    <3> DEFINE old == RowsOf(seen, e.row, e.table, e.key)
               new == RowsOf(W, e.row, e.table, e.key)
    <3>1. old = {state}
      <4>1. e.row \in ContractAddresses /\ e.key \in Keys
        BY <1>3, Constants
      <4>2. Matches(seen, e.row, Done(c, e.row), e.table, e.key)
        BY <1>3, <1>4, <4>1 DEF MatchesAll
      <4> HIDE DEF e, seen
      <4>3. state \in old
        BY <2>3
      <4> QED BY <4>2, <4>3 DEF Matches
    <3>2. \A v \in seen : v \in old => v.group = state.group
      BY <3>1
    <3> HIDE DEF e, seen
    <3>3. new = {v \in NewViews(next) : v.table = e.table /\ v.key = e.key /\ v.event.row = e.row}
      BY <3>2 DEF RowsOf
    <3>4. next.view.table = e.table /\ next.view.key = e.key /\ next.view.event.row = e.row
      BY <2>2, <2>3
    <3>5. CASE e.op = "transfer"
      <4>1. new = {next.view}
        BY <2>7, <3>3, <3>4, <3>5
      <4>2. next.view.applied = state.applied \cup {e}
        BY <2>2, <3>5
      <4> HIDE DEF W
      <4> QED BY <3>1, <3>5, <4>1, <4>2 DEF Applied
    <3>6. CASE e.op = "burn"
      <4>1. new = {}
        BY <2>7, <3>3, <3>6
      <4> HIDE DEF W
      <4> QED BY <3>6, <4>1 DEF Applied
    <3> QED BY <2>6, <3>5, <3>6
  <2>10. at'[c] = at[c] + 1 /\ batch'[c] = batch[c] /\ UNCHANGED <<fork, next_block_number_to_handle_from>>
    BY <1>1, <1>2, <1>8 DEF Put, SubtaskTypes
  <2> HIDE DEF seen, W
  <2>11. \A r \in ContractAddresses : r.chain_id = c => MatchesAll(W, r, Done(c, r)')
    BY <1>2, <1>3, <1>4, <1>5, <2>8, <2>9, <2>10, NextMatches
  <2>12. pc'[c] # "waiting"
    BY <2>4
  <2> QED BY <1>1, <2>5, <2>11, <2>12, MatchesAfter
<1> QED BY <1>6, <1>7, <1>8 DEF Mutate

\* A subtask waits only for rows of a multi-chain state: those of others are its chain's own.
LEMMA OnlySharedWait ==
    ASSUME StayInv, reorged_blocks = {}, NEW c \in ChainIds, pc[c] = "refresh",
           IsLocked(c, {v \in VisibleViews(c) : v.group = Head(refreshing[c]).view.group})
    PROVE  IsShared(Head(refreshing[c]).view)
<1> DEFINE first == Head(refreshing[c]).view
<1>1. OneStatePerGroup /\ OwnTransactions /\ TypeInv /\ txn[Loop] = EmptyTxn /\ c \in Tasks
  BY BeforeReorgs, Constants
<1>2. PICK u \in Tasks \ {c}, v \in VisibleViews(c) : v.group = first.group /\ v \in txn[u].deleted
  BY DEF IsLocked
<1>3. refreshing[c] # <<>> /\ refreshing[c] \in Seq(TypedVersions)
  BY <1>1, TxnFields DEF TypeInv, Types, Control, ControlOfTask
<1>4. /\ Head(refreshing[c]) = refreshing[c][1] /\ 1 \in 1..Len(refreshing[c])
      /\ Head(refreshing[c]) \in ToSet(refreshing[c])
  BY <1>3, EmptyByLength DEF ToSet
<1>5. first \in ViewsInUse /\ v \in ViewsInUse
  BY <1>1, <1>4, KeptInUse, VisibleInUse DEF TypeInv
<1>6. IsShared(first) \/ first.event.row.chain_id = c
  BY <1>1, <1>4 DEF OwnTransactions
<1> HIDE DEF first
<1>7. IsSameState(v, first)
  BY <1>1, <1>2, <1>5 DEF OneStatePerGroup
<1>8. u \in ChainIds
  BY <1>1, <1>2, EmptyTxnFields, Constants
<1>9. IsShared(v) \/ v.event.row.chain_id = u
  BY <1>1, <1>2, <1>8 DEF OwnTransactions
<1>10. IsShared(first)
  BY <1>2, <1>6, <1>7, <1>9 DEF IsSameState, IsShared
<1> QED BY <1>10 DEF first

LEMMA RefreshMatches ==
    ASSUME StayInv, reorged_blocks = {}, NEW c \in ChainIds, ChainMatches(c),
           RefreshView(c) \/ ResumeRefresh(c)
    PROVE  ChainMatches(c)'
<1> DEFINE seen == VisibleViews(c)
           head == Head(refreshing[c])
           first == head.view
           found == {v \in seen : v.group = first.group}
<1>1. /\ pc[c] \in {"refresh", "waiting"} /\ streamed' = streamed /\ batch' = batch /\ at' = at
      /\ UNCHANGED <<fork, next_block_number_to_handle_from, views>>
  BY DEF RefreshView, ResumeRefresh, ingester, tables, subtasks
<1>2. TypeInv /\ Types /\ TableTypes /\ ExecutionTypes /\ c \in Tasks /\ c # Loop /\ OneStatePerGroup
  BY BeforeReorgs, Constants DEF TypeInv, Types
<1>3. /\ refreshing[c] # <<>> /\ Tail(refreshing[c]) = <<>>
      /\ head \in ToSet(refreshing[c]) /\ head \in TypedVersions
  <2>1. refreshing[c] # <<>> /\ refreshing[c] \in Seq(TypedVersions) /\ Len(refreshing[c]) <= 1
    BY <1>1, <1>2, TxnFields DEF TypeInv, Control, ControlOfTask, ControlOfSubtask
  <2>2. Len(refreshing[c]) = 1
    <3> DEFINE n == Len(refreshing[c])
    <3>1. n \in Nat /\ n <= 1
      BY <2>1
    <3>2. n # 0
      BY <2>1, EmptyByLength
    <3> HIDE DEF n
    <3>3. n = 1
      BY <3>1, <3>2
    <3> QED BY <3>3 DEF n
  <2>3. Tail(refreshing[c]) \in Seq(TypedVersions) /\ Len(Tail(refreshing[c])) = 0
    BY <2>1, <2>2, HeadTailProperties
  <2>4. Tail(refreshing[c]) = <<>>
    BY <2>3, EmptyByLength
  <2> QED BY <2>1, <2>2, <2>4 DEF ToSet
<1>4. /\ Pending(c) = {v \in seen : v.group # first.group} \cup NewViews(head)
      /\ \A r \in ContractAddresses : r.chain_id = c => MatchesAll(Pending(c), r, Done(c, r))
  BY <1>1, <1>3 DEF Pending, ChainMatches, TransactionMatches, IsActive
<1>5. \A r : Done(c, r)' = Done(c, r)
  BY <1>1, StoredKept DEF Done, DoneOfBatch
<1>6. CASE RefreshView(c) /\ pc' = Put(pc, c, "waiting") /\ IsLocked(c, found) /\ UNCHANGED <<txn, refreshing>>
  <2>1. IsShared(Head(refreshing[c]).view)'
    BY <1>1, <1>6, OnlySharedWait DEF RefreshView, IsShared
  <2>2. Pending(c)' = Pending(c)
    BY <1>1, <1>6 DEF Pending, VisibleViews, NewViews
  <2>3. \A r \in ContractAddresses : r.chain_id = c => MatchesAll(Pending(c), r, Done(c, r))'
    BY <1>4, <1>5, <2>2 DEF MatchesAll, Matches
  <2>4. TransactionMatches(c)'
    BY <2>1, <2>3 DEF TransactionMatches
  <2>5. CursorsFresh(c) /\ streamed'[c] = streamed[c] /\ batch'[c] = batch[c]
    BY <1>1 DEF ChainMatches
  <2> QED BY <1>1, <2>4, <2>5, CursorsKept, CommittedKept DEF ChainMatches
<1>7. ASSUME NEW gone \in SUBSET TypedViews, FinishRefresh(c, gone)
      PROVE  /\ pc'[c] = "handle"
             /\ Pending(c)' = (seen \ gone) \cup NewViews(head)
  <2>1. /\ pc'[c] = AfterRefresh(c) /\ refreshing'[c] = Tail(refreshing[c])
        /\ txn'[c].inserted = (txn[c].inserted \ gone) \cup NewViews(head)
        /\ txn'[c].deleted = txn[c].deleted \cup (gone \cap views)
    BY <1>2, <1>3, <1>7, FinishRefreshEffect
  <2>2. Pending(c)' = (views \ txn'[c].deleted) \cup txn'[c].inserted
    BY <1>1, <1>3, <2>1 DEF Pending, VisibleViews
  <2> HIDE DEF head
  <2>3. Pending(c)' = (seen \ gone) \cup NewViews(head)
    BY <2>1, <2>2 DEF VisibleViews
  <2> QED BY <1>2, <2>1, <2>3 DEF AfterRefresh
<1>8. CASE RefreshView(c) /\ FinishRefresh(c, found)
  <2>1. found \in SUBSET TypedViews
    BY <1>2, VisibleTyped
  <2>2. pc'[c] = "handle" /\ Pending(c)' = (seen \ found) \cup NewViews(head)
    BY <1>7, <1>8, <2>1
  <2> HIDE DEF seen, head
  <2>3. Pending(c)' = Pending(c)
    BY <1>4, <2>2
  <2>4. \A r \in ContractAddresses : r.chain_id = c => MatchesAll(Pending(c), r, Done(c, r)')
    BY <1>4, <1>5
  <2>5. streamed'[c] = streamed[c] /\ batch'[c] = batch[c] /\ pc'[c] # "waiting"
    BY <1>1, <2>2
  <2> QED BY <1>1, <2>3, <2>4, <2>5, MatchesAfter
<1>9. CASE ResumeRefresh(c) /\ FinishRefresh(c, targets[c])
  <2>1. targets[c] \in SUBSET TypedViews
    BY <1>2, TxnFields
  <2>2. pc'[c] = "handle" /\ Pending(c)' = (seen \ targets[c]) \cup NewViews(head)
    BY <1>7, <1>9, <2>1
  <2>3. IsShared(first)
    BY <1>9 DEF ResumeRefresh, ChainMatches, TransactionMatches
  <2>4. \A v \in targets[c] : v.group = first.group
    BY <1>2 DEF TypeInv, Control, ControlOfTask
  <2>5. first \in ViewsInUse /\ seen \subseteq ViewsInUse
    BY <1>2, <1>3, KeptInUse, VisibleInUse DEF TypeInv
  <2>6. NewViews(head) \subseteq {first}
    BY <1>3, NewViewsOfVersion
  <2> HIDE DEF seen, first, head
  <2>7. \A v \in seen : v.group = first.group => IsShared(v)
    BY <1>2, <2>3, <2>5 DEF OneStatePerGroup, IsSameState, IsShared
  <2>8. \A v \in NewViews(head) : IsShared(v)
    BY <2>3, <2>6
  <2>9. OwnRows(Pending(c)', c) = OwnRows(Pending(c), c)
    BY <1>4, <2>2, <2>4, <2>7, <2>8 DEF OwnRows
  <2>10. \A r \in ContractAddresses : r.chain_id = c => MatchesAll(Pending(c)', r, Done(c, r)')
    BY <1>4, <1>5, <2>9, SameRows
  <2>11. streamed'[c] = streamed[c] /\ batch'[c] = batch[c] /\ pc'[c] # "waiting"
    BY <1>1, <2>2
  <2> QED BY <1>1, <2>10, <2>11, MatchesAfter
<1> QED BY <1>6, <1>8, <1>9 DEF RefreshView, ResumeRefresh

LEMMA CommitMatches ==
    ASSUME StayInv, reorged_blocks = {}, NEW c \in ChainIds, ChainMatches(c), BatchesEndWithBlocks,
           CommitTransaction(c)
    PROVE  ChainMatches(c)'
<1>1. /\ pc[c] = "handle" /\ at[c] > Len(batch[c])
      /\ views' = VisibleViews(c) /\ UNCHANGED <<fork, streamed>>
  BY DEF CommitTransaction, Commit, VisibleViews, ingester
<1>2. TypeInv /\ Types /\ ExecutionTypes /\ SubtaskTypes /\ c \in Tasks
  BY Constants DEF StayInv, TypeInv, Types
<1>3. pc'[c] = "stream" /\ batch'[c] = <<>>
  BY <1>2 DEF CommitTransaction, Put, ExecutionTypes, SubtaskTypes
<1>4. \A r \in ContractAddresses : r.chain_id = c => MatchesAll(VisibleViews(c), r, Done(c, r))
  BY <1>1, <1>2, PendingIsVisible
<1>5. /\ \A r \in ContractAddresses : Handled(r)' = Done(c, r)
      /\ \A a \in streamed[c] : next_block_number_to_handle_from'[a.row] = next_block_number_to_handle_from[a.row]
  <2>1. CASE batch[c] = <<>>
    <3>1. UNCHANGED next_block_number_to_handle_from
      BY <2>1 DEF CommitTransaction
    <3>2. DoneOfBatch(c) = {}
      BY <2>1 DEF DoneOfBatch
    <3> QED BY <1>1, <3>1, <3>2, StoredKept DEF Done
  <2>2. CASE batch[c] # <<>>
    <3>1. PICK r \in ContractAddresses : IsBatchOf(c, r)
      BY <2>2 DEF ChainMatches, CursorsFresh
    <3>2. /\ next_block_number_to_handle_from' = Put(next_block_number_to_handle_from, r, CursorAfter(c))
          /\ Handled(r)' = Done(c, r)
          /\ \A e \in DoneOfBatch(c) : e.row = r
          /\ \A q \in ContractAddresses : q # r => Handled(q)' = Handled(q)
      BY <1>1, <1>2, <2>2, <3>1, HandledByCommit
    <3>3. \A q \in ContractAddresses : q # r => Done(c, q) = Handled(q)
      BY <3>2 DEF Done
    <3>4. \A a \in streamed[c] : a.row # r /\ a.row \in ContractAddresses
      BY <1>2, <3>1 DEF IsBatchOf, SubtaskTypes
    <3>5. \A a \in streamed[c] : next_block_number_to_handle_from'[a.row] = next_block_number_to_handle_from[a.row]
      BY <1>2, <3>2, <3>4 DEF Put, Types, TableTypes
    <3> QED BY <3>2, <3>3, <3>5
  <2> QED BY <2>1, <2>2
<1>6. \A r \in ContractAddresses : r.chain_id = c => MatchesAll(views, r, Handled(r))'
  BY <1>1, <1>4, <1>5 DEF MatchesAll, Matches
<1>7. CursorsFresh(c)'
  BY <1>1, <1>3, <1>5 DEF ChainMatches, CursorsFresh
<1>8. TransactionMatches(c)'
  BY <1>3 DEF TransactionMatches, IsActive
<1> QED BY <1>6, <1>7, <1>8 DEF ChainMatches

-----------------------------------------------------------------------------
(* The views match what is handled *)

\* What a step leaves of the rows of other chains.
LEMMA OwnRowsKept ==
    ASSUME StayInv, reorged_blocks = {}, [Next]_vars, ~ CommitReorg, NEW c \in ChainIds, ~ CommitTransaction(c)
    PROVE  OwnRows(views', c) = OwnRows(views, c)
<1>1. OneStatePerGroup /\ OwnTransactions /\ TypeInv
  BY BeforeReorgs
<1>2. CASE views' = views
  BY <1>2
<1>3. ASSUME NEW d \in ChainIds, CommitTransaction(d)  PROVE OwnRows(views', c) = OwnRows(views, c)
  <2>1. views' = (views \ txn[d].deleted) \cup txn[d].inserted /\ d # c
    BY <1>3 DEF CommitTransaction, Commit
  <2>2. \A v \in txn[d].inserted \cup txn[d].deleted : IsShared(v) \/ v.event.row.chain_id # c
    BY <1>1, <2>1 DEF OwnTransactions
  <2> QED BY <2>1, <2>2 DEF OwnRows
<1>4. CASE DeleteWithoutTxn \/ CreateWithoutTxn
  <2>1. deferred # <<>>
    BY <1>1, <1>4 DEF DeleteWithoutTxn, CreateWithoutTxn, TypeInv, Control, ControlOfLoop
  <2>2. /\ Mutation = deferred[1] /\ 1 \in DOMAIN deferred
        /\ Mutation.state \in TypedViews /\ Mutation.event \in Events
        /\ KindOf[Mutation.state.table] = "MultiChainState"
    BY <1>1, <2>1, MutationFields DEF TypeInv
  <2>3. CASE DeleteWithoutTxn
    <3>1. views' = {v \in views : v.group # Mutation.state.group}
      BY <2>3 DEF DeleteWithoutTxn
    <3>2. Mutation.state \in ViewsInUse /\ \A v \in views : v \in ViewsInUse
      BY <2>2, InUseByParts DEF InUseParts, ViewsOfTables
    <3>3. \A v \in views : v.group = Mutation.state.group => IsShared(v)
      BY <1>1, <2>2, <3>2 DEF OneStatePerGroup, IsSameState, IsShared
    <3> QED BY <3>1, <3>3 DEF OwnRows
  <2>4. CASE CreateWithoutTxn
    <3>1. views' = views \cup NewViews(DeferredVersion)
      BY <2>4 DEF CreateWithoutTxn
    <3>2. DeferredVersion \in TypedVersions /\ DeferredVersion.view.table = Mutation.state.table
      BY <2>2, NextVersionOfState DEF DeferredVersion
    <3>3. \A v \in NewViews(DeferredVersion) : IsShared(v)
      BY <2>2, <3>2, NewViewsOfVersion DEF IsShared
    <3> QED BY <3>1, <3>3 DEF OwnRows
  <2> QED BY <1>4, <2>3, <2>4
<1> QED BY <1>2, <1>3, <1>4, ViewsStep

\* Whose cursors a step moves.
LEMMA CursorsStep ==
    ASSUME [Next]_vars, ~ CommitReorg
    PROVE  \/ UNCHANGED next_block_number_to_handle_from
           \/ \E d \in ChainIds : CommitTransaction(d)
BY DEF Next, vars, tables, ReorgChain, PruneStateVersions, Crash, HandleEvents,
     StreamContractAddresses, BeginTransaction, ReadOne, Mutate, AddDeferred, RefreshView,
     ResumeRefresh, HandleReorgsAndDeferred, LoadReorgedBlocks, DeleteWithoutTxn, CreateWithoutTxn,
     BacktrackStates, GetLatestVersions, ConsumeDeferred, EndRound, AbortDeadlocked

LEMMA CursorsOfOthers ==
    ASSUME TypeInv, [Next]_vars, ~ CommitReorg, NEW c \in ChainIds, ~ CommitTransaction(c)
    PROVE  \A r \in ContractAddresses : r.chain_id = c =>
               next_block_number_to_handle_from'[r] = next_block_number_to_handle_from[r]
<1>1. ASSUME NEW d \in ChainIds, CommitTransaction(d), batch[d] # <<>>,
             NEW r \in ContractAddresses, r.chain_id = c
      PROVE  next_block_number_to_handle_from'[r] = next_block_number_to_handle_from[r]
  <2>1. Last(batch[d]).row.chain_id = d
    <3>1. Len(batch[d]) \in 1..Len(batch[d])
      <4>1. batch[d] \in Seq(Events) /\ Len(batch[d]) \in Nat
        BY DEF TypeInv, Types, SubtaskTypes
      <4>2. Len(batch[d]) # 0
        BY <1>1, <4>1, EmptyByLength
      <4> QED BY <4>1, <4>2
    <3> QED BY <3>1 DEF Last, TypeInv, Control, ControlOfSubtask
  <2>2. next_block_number_to_handle_from' = Put(next_block_number_to_handle_from, Last(batch[d]).row, CursorAfter(d))
    BY <1>1 DEF CommitTransaction
  <2>3. Last(batch[d]).row # r
    BY <1>1, <2>1
  <2> QED BY <2>2, <2>3 DEF Put, TypeInv, Types, TableTypes
<1>2. ASSUME NEW d \in ChainIds, CommitTransaction(d), batch[d] = <<>>
      PROVE  UNCHANGED next_block_number_to_handle_from
  BY <1>2 DEF CommitTransaction
<1> QED BY <1>1, <1>2, CursorsStep

LEMMA SubtaskMatches ==
    ASSUME StayInv, reorged_blocks = {}, BatchesEndWithBlocks, NEW c \in ChainIds, ChainMatches(c),
           HandleEvents(c)
    PROVE  ChainMatches(c)'
BY StreamMatches, BeginMatches, ReadOneMatches, MutateMatches, AddDeferredMatches, RefreshMatches,
   CommitMatches DEF HandleEvents

LEMMA CrashMatches ==
    ASSUME NEW c \in ChainIds, ChainMatches(c), Crash
    PROVE  ChainMatches(c)'
<1>1. /\ pc'[c] = "stream" /\ streamed'[c] = {} /\ batch'[c] = <<>>
      /\ UNCHANGED <<fork, next_block_number_to_handle_from, views>>
  BY Constants DEF Crash, ingester, tables
<1>2. CursorsFresh(c)' /\ TransactionMatches(c)'
  BY <1>1 DEF CursorsFresh, TransactionMatches, IsActive
<1> QED BY <1>1, <1>2, CommittedKept DEF ChainMatches

LEMMA MatchStep ==
    ASSUME StayInv, MatchInv, BatchesEndWithBlocks, [Next]_vars
    PROVE  MatchInv'
<1> SUFFICES ASSUME reorged_blocks' = {}, NEW c \in ChainIds  PROVE ChainMatches(c)'
  <2>1. \A r \in ContractAddresses : r.chain_id \in ChainIds
    BY Constants
  <2> QED BY <2>1 DEF MatchInv, ChainMatches
<1>1. /\ reorged_blocks = {} /\ UNCHANGED fork /\ ~ CommitReorg
      /\ \A d \in ChainIds : ~ ReorgChain(d)
  BY NoReorgStep
<1>2. ChainMatches(c) /\ TypeInv
  BY <1>1, MatchByChains DEF StayInv
<1>3. CASE HandleEvents(c)
  BY <1>1, <1>2, <1>3, SubtaskMatches
<1>4. CASE Crash
  BY <1>2, <1>4, CrashMatches
<1>5. ASSUME IsKept(c), IsKeptSubtask(c), ~ CommitTransaction(c)
      PROVE  ChainMatches(c)'
  BY <1>1, <1>2, <1>5, OwnRowsKept, CursorsOfOthers, OthersMatch
<1>6. ASSUME pc'[c] = pc[c]
      PROVE  ~ CommitTransaction(c)
  BY <1>2, <1>6, Constants DEF CommitTransaction, Put, TypeInv, Types, ExecutionTypes
<1>7. ASSUME NEW d \in ChainIds \ {c}, HandleEvents(d)
      PROVE  ChainMatches(c)'
  <2>1. IsKept(c) /\ IsKeptSubtask(c)
    BY <1>2, <1>7, SubtaskStepKeeps, Constants
  <2> QED BY <1>5, <1>6, <2>1 DEF IsKept
<1>8. CASE HandleReorgsAndDeferred
  <2>1. IsKept(c) /\ UNCHANGED subtasks
    BY <1>2, <1>8, LoopStepKeeps, Constants
  <2> QED BY <1>5, <1>6, <2>1 DEF IsKept, IsKeptSubtask, subtasks
<1>9. CASE (\E d \in ChainIds : PruneStateVersions(d)) \/ UNCHANGED vars
  <2>1. UNCHANGED <<execution, pc, subtasks>>
    BY <1>9 DEF PruneStateVersions, vars
  <2> QED BY <1>5, <1>6, <2>1 DEF IsKept, IsKeptSubtask, execution, subtasks
<1>10. CASE AbortDeadlocked
  <2>1. PICK t \in Tasks : Panic(t)
    BY <1>10 DEF AbortDeadlocked
  <2>2. UNCHANGED <<fork, next_block_number_to_handle_from, views, subtasks>>
    BY <1>10 DEF AbortDeadlocked, ingester, tables
  <2>3. CASE t = c
    <3>1. Panic(c) /\ UNCHANGED <<fork, next_block_number_to_handle_from, views, streamed, batch>>
      BY <2>1, <2>2, <2>3 DEF subtasks
    <3> QED BY <1>2, <3>1, PanicMatches
  <2>4. CASE t # c
    <3>1. IsKept(c) /\ IsKeptSubtask(c)
      BY <1>2, <2>1, <2>2, <2>4, PanicEffect, Constants DEF TypeInv, Types, IsKeptSubtask, subtasks
    <3> QED BY <1>5, <1>6, <3>1 DEF IsKept
  <2> QED BY <2>3, <2>4
<1> QED BY <1>1, <1>3, <1>4, <1>7, <1>8, <1>9, <1>10 DEF Next

\* No contract emits events below its start block, where its cursor begins.
LEMMA InitHandled ==
    ASSUME Init, NEW r \in ContractAddresses
    PROVE  Handled(r) = {}
<1> SUFFICES ASSUME NEW e \in Handled(r)  PROVE FALSE
  OBVIOUS
<1>1. e \in Events /\ e.row = r /\ e.block_number < r.start_block_number
  BY DEF Handled, Init
<1>2. r.start_block_number <= e.block_number /\ e.block_number \in Nat /\ r.start_block_number \in Nat
  BY <1>1, FromStartAssumption, Constants
<1> QED BY <1>1, <1>2

LEMMA InitMatches == Init => MatchInv
<1> SUFFICES ASSUME Init PROVE MatchInv
  OBVIOUS
<1>1. \A r \in ContractAddresses : Handled(r) = {}
  BY InitHandled
<1>2. \A r \in ContractAddresses : MatchesAll(views, r, Handled(r))
  BY <1>1 DEF Init, MatchesAll, Matches, Counted, RowsOf
<1>3. \A c \in ChainIds : CursorsFresh(c) /\ TransactionMatches(c)
  BY Constants DEF Init, CursorsFresh, TransactionMatches, IsActive
<1> QED BY <1>2, <1>3 DEF MatchInv

LEMMA MatchInvIsInvariant == Spec /\ []BatchesEndWithBlocks => []MatchInv
<1>1. StayInv /\ MatchInv /\ BatchesEndWithBlocks /\ [Next]_vars => MatchInv'
  BY MatchStep
<1> QED BY <1>1, InitMatches, StayInvIsInvariant, PTL DEF Spec

\* Until the first re-organization: what handlers and users read of a contract or chain state
\* is one row per key, made of each event behind the contract's cursor once (the states of
\* states.rs, applied by handle_events.rs), as long as no batch ends within a block:
\* load_events limits the events of a batch by their number, and the cursor moves past the
\* block of the last.
THEOREM ViewsMatch == Spec /\ []BatchesEndWithBlocks => []ViewsMatchHandled
<1>1. MatchInv => ViewsMatchHandled
  <2> SUFFICES ASSUME MatchInv, reorged_blocks = {}, NEW r \in ContractAddresses, NEW key \in Keys,
                      NEW table \in OwnTables(r)
               PROVE  Matches(views, r, Handled(r), table, key)
    BY DEF ViewsMatchHandled, Matches, RowsOf
  <2> QED BY DEF MatchInv, MatchesAll
<1> QED BY <1>1, MatchInvIsInvariant, PTL

\* A contract that emits at most one event per block.
OneEventPerBlock ==
    \A e, f \in Events :
        e.row = f.row /\ e.block_number = f.block_number /\ e.fork = f.fork => e = f

LEMMA OneEventEndsItsBlock ==
    ASSUME OneEventPerBlock, StayInv, MatchInv
    PROVE  BatchesEndWithBlocks
<1> SUFFICES ASSUME reorged_blocks = {}, NEW c \in ChainIds, NEW e \in ToSet(batch[c]), NEW f \in Events,
                    f.row = e.row, IsStored(f), f.block_number = e.block_number
             PROVE  f = e
  BY DEF BatchesEndWithBlocks
<1>1. PICK i \in 1..Len(batch[c]) : e = batch[c][i]
  BY DEF ToSet, StayInv, TypeInv, Types, SubtaskTypes
<1>2. PICK r \in ContractAddresses : IsBatchOf(c, r)
  <2>1. batch[c] # <<>>
    BY <1>1
  <2> QED BY <2>1 DEF MatchInv, CursorsFresh
<1>3. e \in Events /\ IsStored(e)
  BY <1>1, <1>2, BatchEvents DEF StayInv, Stored
<1>4. e.fork = f.fork
  BY <1>3 DEF IsStored
<1> QED BY <1>3, <1>4 DEF OneEventPerBlock

\* For contracts that emit at most one event per block, nothing else is needed: no batch
\* size cuts their blocks.
THEOREM ViewsMatchPerBlock ==
    ASSUME OneEventPerBlock
    PROVE  Spec => []ViewsMatchHandled
<1>1. StayInv /\ MatchInv /\ [Next]_vars => MatchInv'
  BY MatchStep, OneEventEndsItsBlock
<1>2. StayInv /\ MatchInv => BatchesEndWithBlocks
  BY OneEventEndsItsBlock
<1> QED BY <1>1, <1>2, InitMatches, StayInvIsInvariant, ViewsMatch, PTL DEF Spec

-----------------------------------------------------------------------------
(* Deferred mutations are kept *)

\* What an active subtask has newly done: nothing deferrable that it has neither a version
\* of nor queues.
LEMMA DoneStep ==
    ASSUME TypeInv, NEW c \in ChainIds, HandleEvents(c), IsActive(c)'
    PROVE  \/ DoneOfBatch(c)' = {}
           \/ /\ IsActive(c) /\ txn[c].appended \subseteq txn'[c].appended
              /\ \A e \in DoneOfBatch(c)' :
                    \/ e \in DoneOfBatch(c)
                    \/ IsDeferrable(e) =>
                          \/ \E v \in txn'[c].appended : v.view.event = e
                          \/ AddDeferred(c) /\ e = event(c)
<1> DEFINE e == event(c)
<1>1. c \in Tasks /\ Types /\ TableTypes /\ ExecutionTypes /\ SubtaskTypes /\ c # Loop
  BY Constants DEF TypeInv, Types
<1>2. \A p : pc' = Put(pc, c, p) => pc'[c] = p
  BY <1>1 DEF Put, ExecutionTypes
<1>3. ASSUME at' = at, batch' = batch  PROVE DoneOfBatch(c)' = DoneOfBatch(c)
  BY <1>3 DEF DoneOfBatch
<1>4. ASSUME at[c] <= Len(batch[c]), at' = Put(at, c, at[c] + 1), batch' = batch,
             UNCHANGED <<fork, next_block_number_to_handle_from>>
      PROVE  DoneOfBatch(c)' = DoneOfBatch(c) \cup {e}
  <2>1. at'[c] = at[c] + 1 /\ batch'[c] = batch[c]
    BY <1>1, <1>4 DEF Put, SubtaskTypes
  <2> QED BY <1>4, <2>1, DoneOfNext
<1>5. ~ Panic(c)
  BY <1>2 DEF Panic, IsActive
<1>6. CASE StreamContractAddresses(c) \/ CommitTransaction(c)
  BY <1>2, <1>6 DEF StreamContractAddresses, CommitTransaction, IsActive
<1>7. CASE BeginTransaction(c)
  <2>1. at'[c] = 1
    BY <1>1, <1>7 DEF BeginTransaction, Put, SubtaskTypes
  <2>2. DoneOfBatch(c)' = {}
    BY <2>1 DEF DoneOfBatch
  <2> QED BY <2>2
<1>8. CASE ReadOne(c)
  <2>1. /\ IsActive(c) /\ at[c] <= Len(batch[c]) /\ batch' = batch
        /\ UNCHANGED <<fork, next_block_number_to_handle_from>>
    BY <1>8 DEF ReadOne, IsActive, ingester, tables
  <2>2. CASE UNCHANGED <<execution, at>>
    BY <1>3, <2>1, <2>2 DEF execution
  <2>3. CASE e.op = "burn" /\ UNCHANGED execution /\ at' = Put(at, c, at[c] + 1)
    <3>1. DoneOfBatch(c)' = DoneOfBatch(c) \cup {e}
      BY <1>4, <2>1, <2>3
    <3>2. ~ IsDeferrable(e)
      BY <2>3 DEF IsDeferrable
    <3> HIDE DEF e
    <3> QED BY <2>1, <2>3, <3>1, <3>2 DEF execution
  <2>4. CASE AppendVersion(c, CreatedVersion(e)) /\ at' = Put(at, c, at[c] + 1)
    <3>1. e \in Events /\ NewGroup \in Nat
      BY <1>1, <2>1, EventAtHand, NewGroupIsFresh DEF TypeInv
    <3>2. CreatedVersion(e) \in TypedVersions /\ CreatedVersion(e).view.event = e
      BY <3>1, CreatedVersionOfEvent
    <3>3. txn'[c].appended = txn[c].appended \cup {CreatedVersion(e)}
      BY <1>1, <1>5, <2>4, <3>2, AppendVersionEffect
    <3>4. DoneOfBatch(c)' = DoneOfBatch(c) \cup {e}
      BY <1>4, <2>1, <2>4
    <3> HIDE DEF e
    <3> QED BY <2>1, <3>2, <3>3, <3>4
  <2> QED BY <1>8, <2>2, <2>3, <2>4 DEF ReadOne
<1>9. CASE Mutate(c)
  <2>1. /\ pc[c] = "mutate" /\ IsActive(c) /\ batch' = batch
        /\ UNCHANGED <<fork, next_block_number_to_handle_from>>
    BY <1>9 DEF Mutate, IsActive, ingester, tables
  <2>2. at[c] <= Len(batch[c]) /\ e \in Events
    <3>1. at[c] <= Len(batch[c])
      BY <2>1 DEF TypeInv, Control, ControlOfSubtask
    <3> QED BY <1>1, <3>1, EventAtHand DEF TypeInv
  <2>3. CASE UNCHANGED <<execution, at>>
    BY <1>3, <2>1, <2>3 DEF execution
  <2>4. CASE /\ KindOf[e.table] # "MultiChainState" /\ at' = Put(at, c, at[c] + 1)
             /\ \E state \in Complete(c, held[c], e) : AppendVersion(c, NextVersion(state, e))
    <3>1. PICK state \in Complete(c, held[c], e) : AppendVersion(c, NextVersion(state, e))
      BY <2>4
    <3>2. NextVersion(state, e) \in TypedVersions
      BY <1>1, <2>2, VisibleTyped, NextVersionOfState DEF Complete
    <3>3. txn'[c].appended = txn[c].appended \cup {NextVersion(state, e)}
      BY <1>1, <1>5, <3>1, <3>2, AppendVersionEffect
    <3>4. DoneOfBatch(c)' = DoneOfBatch(c) \cup {e}
      BY <1>4, <2>1, <2>2, <2>4
    <3>5. ~ IsDeferrable(e)
      BY <2>4 DEF IsDeferrable
    <3> HIDE DEF e
    <3> QED BY <2>1, <3>3, <3>4, <3>5
  <2> QED BY <1>5, <1>9, <2>3, <2>4 DEF Mutate
<1>10. CASE AddDeferred(c)
  <2>1. /\ pc[c] = "defer" /\ IsActive(c) /\ batch' = batch /\ at' = Put(at, c, at[c] + 1)
        /\ UNCHANGED <<fork, next_block_number_to_handle_from, txn>>
    BY <1>10 DEF AddDeferred, IsActive, ingester, tables, execution
  <2>2. at[c] <= Len(batch[c])
    BY <2>1 DEF TypeInv, Control, ControlOfSubtask
  <2>3. DoneOfBatch(c)' = DoneOfBatch(c) \cup {e}
    BY <1>4, <2>1, <2>2
  <2> HIDE DEF e
  <2>4. \A f \in DoneOfBatch(c)' : f \in DoneOfBatch(c) \/ f = e
    BY <2>3
  <2> QED BY <1>10, <2>1, <2>4 DEF e
<1>11. CASE RefreshView(c) \/ ResumeRefresh(c)
  <2>1. IsActive(c) /\ at' = at /\ batch' = batch
    BY <1>11 DEF RefreshView, ResumeRefresh, IsActive, subtasks
  <2>2. refreshing[c] # <<>>
    BY <1>1, <1>11 DEF RefreshView, ResumeRefresh, TypeInv, Control, ControlOfTask
  <2>3. ASSUME NEW found \in SUBSET TypedViews, FinishRefresh(c, found)
        PROVE  txn'[c].appended = txn[c].appended
    BY <1>1, <2>2, <2>3, FinishRefreshEffect
  <2>4. txn'[c].appended = txn[c].appended
    <3>1. targets[c] \in SUBSET TypedViews
      BY <1>1, TxnFields
    <3>2. {v \in VisibleViews(c) : v.group = Head(refreshing[c]).view.group} \in SUBSET TypedViews
      BY <1>1, VisibleTyped
    <3> QED BY <1>11, <2>3, <3>1, <3>2 DEF RefreshView, ResumeRefresh
  <2> QED BY <1>3, <2>1, <2>4
<1> QED BY <1>6, <1>7, <1>8, <1>9, <1>10, <1>11 DEF HandleEvents

\* What changes the versions and the mutations queued.
LEMMA VersionsStep ==
    ASSUME [Next]_vars
    PROVE  /\ \/ versions' = versions
              \/ \E d \in ChainIds : CommitTransaction(d) \/ PruneStateVersions(d)
              \/ CommitReorg \/ ConsumeDeferred
           /\ \/ deferred' = deferred
              \/ \E d \in ChainIds : AddDeferred(d)
              \/ CreateWithoutTxn \/ Crash
BY DEF Next, vars, tables, ReorgChain, PruneStateVersions, Crash, HandleEvents,
     StreamContractAddresses, BeginTransaction, ReadOne, Mutate, AddDeferred, RefreshView,
     ResumeRefresh, CommitTransaction, HandleReorgsAndDeferred, LoadReorgedBlocks, CommitReorg,
     DeleteWithoutTxn, CreateWithoutTxn,
     BacktrackStates, GetLatestVersions, ConsumeDeferred, EndRound, AbortDeadlocked

\* A mutation is no longer queued only once it has its version.
LEMMA KeptOnce ==
    ASSUME TypeInv, [Next]_vars, ~ CommitReorg, ~ Crash, \A d \in ChainIds : ~ PruneStateVersions(d),
           pc[Loop] \in {"delete", "insert"} => DeferredVersion \in versions
    PROVE  /\ versions \subseteq versions'
           /\ \A e : IsVersioned(e) \/ IsQueued(e) => IsVersioned(e)' \/ IsQueued(e)'
<1>1. versions \subseteq versions'
  <2>1. ASSUME NEW d \in ChainIds, CommitTransaction(d)  PROVE versions \subseteq versions'
    <3>1. txn[d].dropped = {}
      BY DEF TypeInv, Control, ControlOfSubtask
    <3> QED BY <2>1, <3>1 DEF CommitTransaction, Commit
  <2>2. CASE ConsumeDeferred
    BY <2>2 DEF ConsumeDeferred
  <2> QED BY <2>1, <2>2, VersionsStep
<1>2. \A e : IsVersioned(e) => IsVersioned(e)'
  BY <1>1 DEF IsVersioned
<1>3. ASSUME NEW e, IsQueued(e)
      PROVE  IsVersioned(e)' \/ IsQueued(e)'
  <2>1. PICK i \in DOMAIN deferred : deferred[i].event = e
    BY <1>3 DEF IsQueued
  <2>2. CASE deferred' = deferred
    BY <2>1, <2>2 DEF IsQueued
  <2>3. ASSUME NEW d \in ChainIds, AddDeferred(d)  PROVE IsQueued(e)'
    <3>1. deferred \in Seq([state : TypedViews, event : Events])
      BY DEF TypeInv, Types, LoopTypes
    <3>2. deferred' = Append(deferred, [state |-> held[d], event |-> event(d)])
      BY <2>3 DEF AddDeferred
    <3>3. i \in DOMAIN deferred' /\ deferred'[i] = deferred[i]
      BY <2>1, <3>1, <3>2
    <3> QED BY <2>1, <3>3 DEF IsQueued
  <2>4. CASE CreateWithoutTxn
    <3>1. pc[Loop] = "insert" /\ deferred' = Remaining /\ versions' = versions
      BY <2>4 DEF CreateWithoutTxn
    <3>2. deferred # <<>> /\ DeferredVersion \in versions
      BY <3>1 DEF TypeInv, Control, ControlOfLoop
    <3>3. /\ Mutation.state \in TypedViews /\ Mutation.event \in Events /\ Mutation = deferred[1]
          /\ Remaining = Tail(deferred)
      BY <3>2, MutationFields DEF TypeInv, Remaining
    <3>4. DeferredVersion.view.event = Mutation.event
      BY <3>3, NextVersionOfState DEF DeferredVersion
    <3>5. CASE i = 1
      BY <2>1, <3>1, <3>2, <3>3, <3>4, <3>5 DEF IsVersioned
    <3>6. CASE i # 1
      <4>1. deferred \in Seq([state : TypedViews, event : Events])
        BY DEF TypeInv, Types, LoopTypes
      <4>2. i - 1 \in DOMAIN deferred' /\ deferred'[i - 1] = deferred[i]
        BY <2>1, <3>1, <3>2, <3>3, <3>6, <4>1
      <4> QED BY <2>1, <4>2 DEF IsQueued
    <3> QED BY <3>5, <3>6
  <2> QED BY <2>2, <2>3, <2>4, VersionsStep
<1> QED BY <1>1, <1>2, <1>3

\* A loop that has ended stays so, until the process starts again.
LEMMA LoopEnded ==
    ASSUME TypeInv, [Next]_vars, ~ Crash, pc[Loop] = "dead"
    PROVE  pc'[Loop] = "dead"
<1>1. ASSUME NEW c \in ChainIds, HandleEvents(c)  PROVE pc'[Loop] = pc[Loop]
  BY <1>1, SubtaskStepKeeps, Constants DEF IsKept
<1>2. CASE AbortDeadlocked
  <2>1. PICK t \in Tasks : Panic(t)
    BY <1>2 DEF AbortDeadlocked
  <2> QED BY <2>1, PanicEffect, Constants DEF TypeInv, Types, IsKept
<1>3. ~ HandleReorgsAndDeferred
  BY DEF HandleReorgsAndDeferred, LoadReorgedBlocks, BacktrackStates, GetLatestVersions, RefreshView,
         ResumeRefresh, CommitReorg, ConsumeDeferred, DeleteWithoutTxn, CreateWithoutTxn, EndRound
<1>4. ASSUME NEW c \in ChainIds, ReorgChain(c) \/ PruneStateVersions(c)  PROVE pc' = pc
  BY <1>4 DEF ReorgChain, PruneStateVersions
<1> QED BY <1>1, <1>2, <1>3, <1>4 DEF Next, vars

\* The version of the mutation at hand is there until its view has been replaced.
LEMMA AtHandStep ==
    ASSUME TypeInv, [Next]_vars, versions \subseteq versions', ~ Crash,
           pc[Loop] \in {"delete", "insert"} => DeferredVersion \in versions,
           pc'[Loop] \in {"delete", "insert"}
    PROVE  (DeferredVersion \in versions)'
<1>1. \A p : pc' = Put(pc, Loop, p) => pc'[Loop] = p
  BY Constants DEF Put, TypeInv, Types, ExecutionTypes
<1>2. ASSUME deferred' = deferred, DeferredVersion \in versions'  PROVE (DeferredVersion \in versions)'
  BY <1>2 DEF DeferredVersion, Mutation, NextVersion
<1>3. CASE ConsumeDeferred
  <2>1. DeferredVersion \in versions' /\ deferred' = deferred
    BY <1>1, <1>3 DEF ConsumeDeferred, Panic
  <2> QED BY <1>2, <2>1
<1>4. CASE DeleteWithoutTxn
  <2>1. DeferredVersion \in versions' /\ deferred' = deferred
    BY <1>4 DEF DeleteWithoutTxn
  <2> QED BY <1>2, <2>1
<1>5. ASSUME pc'[Loop] = pc[Loop], deferred' = deferred
      PROVE  (DeferredVersion \in versions)'
  BY <1>2, <1>5
<1>6. ASSUME NEW c \in ChainIds, HandleEvents(c)
      PROVE  (DeferredVersion \in versions)'
  <2>1. pc'[Loop] = pc[Loop]
    BY <1>6, SubtaskStepKeeps, Constants DEF IsKept
  <2>2. deferred' = deferred
    <3>1. ~ AddDeferred(c)
      BY <2>1 DEF AddDeferred, IsConsuming
    <3> QED BY <1>6, <3>1 DEF HandleEvents, StreamContractAddresses, BeginTransaction, ReadOne, Mutate,
                              RefreshView, ResumeRefresh, CommitTransaction
  <2> QED BY <1>5, <2>1, <2>2
<1>7. CASE AbortDeadlocked
  <2>1. PICK t \in Tasks : Panic(t)
    BY <1>7 DEF AbortDeadlocked
  <2>2. pc'[Loop] = pc[Loop]
    BY <2>1, PanicEffect, Constants DEF TypeInv, Types, IsKept
  <2> QED BY <1>5, <1>7, <2>2 DEF AbortDeadlocked
<1>8. CASE (\E c \in ChainIds : ReorgChain(c) \/ PruneStateVersions(c)) \/ UNCHANGED vars
  <2>1. pc' = pc /\ deferred' = deferred
    BY <1>8 DEF ReorgChain, PruneStateVersions, vars
  <2> QED BY <1>5, <2>1
<1>9. CASE \/ LoadReorgedBlocks \/ BacktrackStates \/ GetLatestVersions \/ RefreshView(Loop)
           \/ ResumeRefresh(Loop) \/ CommitReorg \/ CreateWithoutTxn \/ EndRound
  <2>1. pc'[Loop] \notin {"delete", "insert"}
    BY <1>1, <1>9 DEF LoadReorgedBlocks, BacktrackStates, GetLatestVersions, RefreshView, ResumeRefresh,
                      FinishRefresh, AfterRefresh, Panic, CommitReorg, CreateWithoutTxn, EndRound
  <2> QED BY <2>1
<1> QED BY <1>3, <1>4, <1>6, <1>7, <1>8, <1>9 DEF Next, HandleReorgsAndDeferred

LEMMA CountersStep ==
    ASSUME TypeInv, [Next]_vars, crashes \in Nat, prunes \in Nat
    PROVE  /\ crashes' \in Nat /\ prunes' \in Nat
           /\ crashes' = 0 => ~ Crash /\ crashes = 0
           /\ prunes' = 0 => prunes = 0 /\ \A c \in ChainIds : ~ PruneStateVersions(c)
<1>1. CASE Crash
  BY <1>1 DEF Crash, ingester, PruneStateVersions
<1>2. CASE \E c \in ChainIds : PruneStateVersions(c)
  BY <1>2 DEF PruneStateVersions, Crash
<1>3. CASE ~ Crash /\ \A c \in ChainIds : ~ PruneStateVersions(c)
  <2>1. ASSUME NEW c \in ChainIds, HandleEvents(c)  PROVE UNCHANGED <<crashes, prunes>>
    BY <2>1, SubtaskStepKeeps DEF ingester
  <2>2. ASSUME HandleReorgsAndDeferred  PROVE UNCHANGED <<crashes, prunes>>
    BY <2>2, LoopStepKeeps DEF ingester
  <2>3. UNCHANGED <<crashes, prunes>>
    BY <1>3, <2>1, <2>2 DEF Next, vars, ReorgChain, AbortDeadlocked, ingester
  <2> QED BY <1>3, <2>3
<1> QED BY <1>1, <1>2, <1>3

LEMMA KeptStep ==
    ASSUME StayInv, MatchInv, KeptInv, BatchesEndWithBlocks, [Next]_vars
    PROVE  KeptInv'
<1> SUFFICES ASSUME reorged_blocks' = {}, crashes' = 0, prunes' = 0, pc'[Loop] # "dead"
             PROVE  /\ \A r \in ContractAddresses : \A e \in Handled(r)' :
                          IsDeferrable(e) => IsVersioned(e)' \/ IsQueued(e)'
                    /\ \A c \in ChainIds : IsActive(c)' => \A e \in DoneOfBatch(c)' :
                          IsDeferrable(e) => \/ \E v \in txn'[c].appended : v.view.event = e
                                             \/ IsVersioned(e)' \/ IsQueued(e)'
                    /\ pc'[Loop] \in {"delete", "insert"} => (DeferredVersion \in versions)'
  <2>1. crashes' \in Nat /\ prunes' \in Nat
    BY CountersStep DEF StayInv, KeptInv
  <2> QED BY <2>1 DEF KeptInv, IsVersioned, IsDeferrable
<1>1. TypeInv /\ Types
  BY DEF StayInv, TypeInv
<1>2. /\ reorged_blocks = {} /\ UNCHANGED fork /\ ~ CommitReorg /\ \A c \in ChainIds : ~ ReorgChain(c)
  BY NoReorgStep
<1>3. ~ Crash /\ (\A c \in ChainIds : ~ PruneStateVersions(c)) /\ crashes = 0 /\ prunes = 0
  BY <1>1, CountersStep DEF KeptInv
<1>4. pc[Loop] # "dead"
  BY <1>1, <1>3, LoopEnded
<1>5. /\ \A r \in ContractAddresses : \A e \in Handled(r) :
            IsDeferrable(e) => IsVersioned(e) \/ IsQueued(e)
      /\ \A c \in ChainIds : IsActive(c) => \A e \in DoneOfBatch(c) :
            IsDeferrable(e) => \/ \E v \in txn[c].appended : v.view.event = e
                               \/ IsVersioned(e) \/ IsQueued(e)
      /\ pc[Loop] \in {"delete", "insert"} => DeferredVersion \in versions
  BY <1>2, <1>3, <1>4 DEF KeptInv, IsVersioned
<1>6. /\ versions \subseteq versions'
      /\ \A e : IsVersioned(e) \/ IsQueued(e) => IsVersioned(e)' \/ IsQueued(e)'
  BY <1>1, <1>2, <1>3, <1>5, KeptOnce
<1>7. pc'[Loop] \in {"delete", "insert"} => (DeferredVersion \in versions)'
  BY <1>1, <1>3, <1>5, <1>6, AtHandStep
<1>8. ASSUME NEW r \in ContractAddresses, NEW e \in Handled(r)', IsDeferrable(e)
      PROVE  IsVersioned(e)' \/ IsQueued(e)'
  <2>1. CASE e \in Handled(r)
    BY <1>5, <1>6, <1>8, <2>1
  <2>2. CASE e \notin Handled(r)
    <3>1. PICK c \in ChainIds : CommitTransaction(c)
      <4>1. ~ UNCHANGED next_block_number_to_handle_from
        BY <1>2, <1>8, <2>2, StoredKept
      <4> QED BY <1>2, <4>1, CursorsStep
    <3>2. batch[c] # <<>>
      <4>1. batch[c] = <<>> => UNCHANGED next_block_number_to_handle_from
        BY <3>1 DEF CommitTransaction
      <4> QED BY <1>2, <1>8, <2>2, <4>1, StoredKept
    <3>3. PICK q \in ContractAddresses : IsBatchOf(c, q)
      BY <1>2, <3>2 DEF MatchInv, CursorsFresh
    <3>4. /\ Handled(q)' = Done(c, q) /\ \A p \in ContractAddresses : p # q => Handled(p)' = Handled(p)
      BY <1>1, <1>2, <3>1, <3>2, <3>3, HandledByCommit DEF CommitTransaction
    <3>5. e \in DoneOfBatch(c)
      <4>1. r = q
        BY <1>8, <2>2, <3>4
      <4> QED BY <1>8, <2>2, <3>4, <4>1 DEF Done
    <3>6. \/ \E v \in txn[c].appended : v.view.event = e
          \/ IsVersioned(e) \/ IsQueued(e)
      BY <1>5, <1>8, <3>1, <3>5 DEF CommitTransaction, IsActive
    <3>7. txn[c].appended \subseteq versions'
      BY <3>1 DEF CommitTransaction, Commit
    <3> QED BY <1>6, <3>6, <3>7 DEF IsVersioned
  <2> QED BY <2>1, <2>2
<1>9. ASSUME NEW c \in ChainIds, IsActive(c)', NEW e \in DoneOfBatch(c)', IsDeferrable(e)
      PROVE  \/ \E v \in txn'[c].appended : v.view.event = e
             \/ IsVersioned(e)' \/ IsQueued(e)'
  <2>1. ASSUME IsKept(c), IsKeptSubtask(c)
        PROVE  \/ \E v \in txn'[c].appended : v.view.event = e
               \/ IsVersioned(e)' \/ IsQueued(e)'
    <3>1. IsActive(c) /\ e \in DoneOfBatch(c) /\ txn'[c] = txn[c]
      BY <1>9, <2>1 DEF IsActive, DoneOfBatch, IsKept, IsKeptSubtask
    <3> QED BY <1>5, <1>6, <1>9, <3>1
  <2>2. CASE HandleEvents(c)
    <3>1. /\ IsActive(c) /\ txn[c].appended \subseteq txn'[c].appended
          /\ \/ e \in DoneOfBatch(c)
             \/ \E v \in txn'[c].appended : v.view.event = e
             \/ AddDeferred(c) /\ e = event(c)
      BY <1>1, <1>9, <2>2, DoneStep
    <3>2. CASE e \in DoneOfBatch(c)
      BY <1>5, <1>6, <1>9, <3>1, <3>2
    <3>3. CASE AddDeferred(c) /\ e = event(c)
      <4>1. /\ deferred \in Seq([state : TypedViews, event : Events])
            /\ deferred' = Append(deferred, [state |-> held[c], event |-> e])
        BY <1>1, <3>3 DEF AddDeferred, Types, LoopTypes
      <4>2. Len(deferred) + 1 \in DOMAIN deferred' /\ deferred'[Len(deferred) + 1].event = e
        BY <4>1
      <4> QED BY <4>2 DEF IsQueued
    <3> QED BY <3>1, <3>2, <3>3
  <2>3. ASSUME NEW d \in ChainIds \ {c}, HandleEvents(d)  PROVE IsKept(c) /\ IsKeptSubtask(c)
    BY <1>1, <2>3, SubtaskStepKeeps, Constants
  <2>4. CASE HandleReorgsAndDeferred
    <3>1. IsKept(c) /\ IsKeptSubtask(c)
      BY <1>1, <2>4, LoopStepKeeps, Constants DEF IsKeptSubtask, subtasks
    <3> QED BY <2>1, <3>1
  <2>5. CASE AbortDeadlocked
    <3>1. PICK t \in Tasks : Panic(t)
      BY <2>5 DEF AbortDeadlocked
    <3>2. t # c
      BY <1>1, <1>9, <3>1, PanicEffect, Constants DEF IsActive, Types
    <3>3. IsKept(c) /\ IsKeptSubtask(c)
      BY <1>1, <2>5, <3>1, <3>2, PanicEffect, Constants DEF AbortDeadlocked, IsKeptSubtask, subtasks, Types
    <3> QED BY <2>1, <3>3
  <2>6. CASE UNCHANGED vars
    BY <2>1, <2>6 DEF vars, execution, subtasks, IsKept, IsKeptSubtask
  <2> QED BY <1>2, <1>3, <2>1, <2>2, <2>3, <2>4, <2>5, <2>6 DEF Next
<1> QED BY <1>7, <1>8, <1>9

LEMMA InitKept == Init => KeptInv
<1> SUFFICES ASSUME Init PROVE KeptInv
  OBVIOUS
<1>1. \A r \in ContractAddresses : Handled(r) = {}
  BY InitHandled
<1>2. /\ \A c \in ChainIds : ~ IsActive(c)
      /\ pc[Loop] = "load" /\ crashes = 0 /\ prunes = 0
  BY Constants DEF Init, IsActive
<1> QED BY <1>1, <1>2 DEF KeptInv

\* Until the process dies, a chain re-organizes or versions are pruned: each transfer behind
\* the cursor has its version of the multi-chain state, or the mutation is still queued, or a
\* failed statement has ended the loop: none is lost between the transaction that deferred it
\* (deferred_futures.rs, multi_chain_state.rs) and the loop that applies it.  As for the
\* views, no batch is to end within a block.
THEOREM DeferredKept == Spec /\ []BatchesEndWithBlocks => []DeferredMutationsKept
<1>1. StayInv /\ MatchInv /\ KeptInv /\ BatchesEndWithBlocks /\ [Next]_vars => KeptInv'
  BY KeptStep
<1>2. KeptInv => DeferredMutationsKept
  BY DEF KeptInv, DeferredMutationsKept, IsVersioned, IsQueued, IsDeferrable
<1> QED BY <1>1, <1>2, InitKept, StayInvIsInvariant, MatchInvIsInvariant, PTL DEF Spec
=============================================================================
