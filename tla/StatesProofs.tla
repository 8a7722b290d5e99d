---------------------------- MODULE StatesProofs ----------------------------
(***************************************************************************)
(* Theorems about States, for every set of chains, contract addresses,     *)
(* events and tables, every batch size and number of re-organizations:     *)
(* type correctness, and that a re-organization stays on its chain.        *)
(***************************************************************************)
EXTENDS States, FiniteSetTheorems, SequenceTheorems, TLAPS

-----------------------------------------------------------------------------
(* The invariants *)

ReorgRows == [id : 1..MaxReorgs, chain_id : ChainIds, block_number : BlockNumbers]

Txns == [appended : SUBSET TypedVersions, dropped : SUBSET TypedVersions,
         inserted : SUBSET TypedViews, deleted : SUBSET TypedViews]

PcValues == {"load", "backtrack", "latest", "refresh", "waiting", "consume", "delete", "insert",
             "stream", "handle", "mutate", "defer", "dead"}

TableTypes ==
    /\ fork \in [ChainIds -> [BlockNumbers -> 0..MaxReorgs]]
    /\ reorged_blocks \in SUBSET ReorgRows /\ IsFiniteSet(reorged_blocks)
    /\ next_block_number_to_handle_from \in [ContractAddresses -> Nat]
    /\ versions \in SUBSET TypedVersions /\ views \in SUBSET TypedViews

ExecutionTypes ==
    /\ txn \in [Tasks -> Txns]
    /\ targets \in [Tasks -> SUBSET TypedViews]
    /\ refreshing \in [Tasks -> Seq(TypedVersions)]
    /\ pc \in [Tasks -> PcValues]

SubtaskTypes ==
    /\ streamed \in [ChainIds -> SUBSET [row : ContractAddresses, from : Nat]]
    /\ batch \in [ChainIds -> Seq(Events)]
    /\ at \in [ChainIds -> Nat \ {0}]
    /\ held \in [ChainIds -> TypedViews \cup {None}]

LoopTypes ==
    /\ deferred \in Seq([state : TypedViews, event : Events])
    /\ earliest \in SUBSET ReorgRows
    /\ backtracking \in SUBSET (earliest \X StateTables)
    /\ groups \in SUBSET Nat

Types == TableTypes /\ ExecutionTypes /\ SubtaskTypes /\ LoopTypes

\* Where a task is, and what it has at hand there.
ControlOfTask(t) ==
    /\ pc[t] \in IF t = Loop
          THEN {"load", "backtrack", "latest", "refresh", "waiting", "consume", "delete", "insert",
                "dead"}
          ELSE {"stream", "handle", "mutate", "defer", "refresh", "waiting", "dead"}
    /\ pc[t] \in {"stream", "load", "consume", "delete", "insert", "dead"} => txn[t] = EmptyTxn
    /\ refreshing[t] # <<>> <=> pc[t] \in {"refresh", "waiting"}
    /\ targets[t] # {} => pc[t] = "waiting"
    /\ \A v \in targets[t] : v.group = Head(refreshing[t]).view.group

ControlOfSubtask(c) ==
    /\ at[c] <= Len(batch[c]) + 1
    /\ \A i \in 1..Len(batch[c]) : batch[c][i].row.chain_id = c
    /\ \A a \in streamed[c] : a.row.chain_id = c
    /\ pc[c] = "stream" => batch[c] = <<>> /\ at[c] = 1
    /\ txn[c].dropped = {} /\ Len(refreshing[c]) <= 1
    /\ held[c] # None => pc[c] \in {"mutate", "defer", "dead"}
    /\ pc[c] \in {"mutate", "defer"} =>
          /\ at[c] <= Len(batch[c]) /\ held[c] # None
          /\ held[c].table = event(c).table /\ held[c].key = event(c).key
    /\ pc[c] = "defer" => KindOf[event(c).table] = "MultiChainState"

ControlOfLoop ==
    /\ pc[Loop] \in {"delete", "insert"} => deferred # <<>>
    /\ \A i \in 1..Len(deferred) :
          /\ KindOf[deferred[i].event.table] = "MultiChainState"
          /\ deferred[i].state.table = deferred[i].event.table
          /\ deferred[i].state.key = deferred[i].event.key
    /\ groups # {} => pc[Loop] \in {"latest", "dead"}
    /\ txn[Loop].appended = {}

Control ==
    /\ \A t \in Tasks : ControlOfTask(t)
    /\ \A c \in ChainIds : ControlOfSubtask(c)
    /\ ControlOfLoop

\* There is always a group to be had, and a row is of the table and key of its event.
InUse ==
    /\ IsFiniteSet(ViewsInUse) /\ IsFiniteSet(groups)
    /\ \A v \in ViewsInUse : v.table = v.event.table /\ v.key = v.event.key

TypeInv == Types /\ Control /\ InUse

IsShared(v) == KindOf[v.table] = "MultiChainState"

\* The rows of a group are those of one state.
IsSameState(v, w) ==
    /\ v.table = w.table /\ v.key = w.key
    /\ KindOf[v.table] = "ContractState" => v.event.row = w.event.row
    /\ ~ IsShared(v) => v.event.row.chain_id = w.event.row.chain_id

OneStatePerGroup == \A v, w \in ViewsInUse : v.group = w.group => IsSameState(v, w)

\* A subtask replaces rows of its own chain only, but for those of multi-chain states.
OwnTransactions ==
    \A c \in ChainIds :
        /\ \A v \in txn[c].inserted \cup txn[c].deleted : IsShared(v) \/ v.event.row.chain_id = c
        /\ \A i \in 1..Len(refreshing[c]) :
              IsShared(refreshing[c][i].view) \/ refreshing[c][i].view.event.row.chain_id = c

\* The state a subtask has read is still there when it is about to replace it.
HeldStillThere ==
    \A c \in ChainIds :
        pc[c] = "mutate" /\ ~ IsShared(held[c]) =>
            held[c] \in VisibleViews(c) /\ IsInContext(held[c], event(c))

\* No two chains have a chain state of one key.
ChainStatesApart ==
    \A e, f \in Events :
        KindOf[e.table] = "ChainState" /\ e.table = f.table /\ e.key = f.key
        => e.row.chain_id = f.row.chain_id

Contained == handled_reorged_blocks = {} \/ ChainStatesApart

ReorgIds == {r.id : r \in reorged_blocks}

\* What the loop is at concerns a re-organization that is recorded and not yet handled.
RoundOpen ==
    /\ handled_reorged_blocks \subseteq ReorgIds
    /\ \A r \in earliest : r \in reorged_blocks /\ r.id \notin handled_reorged_blocks
    /\ earliest = {} => backtracking = {} /\ pc[Loop] \notin {"backtrack", "latest", "refresh", "waiting"}
    /\ pc[Loop] \in {"load", "consume", "delete", "insert"} => earliest = {}

IsOfEarliest(v) == IsShared(v) \/ \E b \in earliest : b.chain_id = v.event.row.chain_id

\* What the transaction of the loop is to replace is of the chains of this round.
LoopStaysOnChain ==
    /\ \A v \in txn[Loop].dropped : \E b \in earliest :
          b.chain_id = v.view.event.row.chain_id /\ b.block_number <= v.view.event.block_number
    /\ \A v \in txn[Loop].deleted \cup txn[Loop].inserted : IsOfEarliest(v)
    /\ \A i \in 1..Len(refreshing[Loop]) : IsOfEarliest(refreshing[Loop][i].view)
    /\ \A v \in ViewsInUse : v.group \in groups => IsOfEarliest(v)

StayInv ==
    /\ TypeInv
    /\ RoundOpen
    /\ Contained => OneStatePerGroup /\ OwnTransactions /\ LoopStaysOnChain
    /\ handled_reorged_blocks = {} => HeldStillThere

-----------------------------------------------------------------------------
(* Lemmas about the operators *)

LEMMA Constants ==
    /\ MaxBlockNumber \in Nat /\ MaxReorgs \in Nat /\ BlockNumbers \subseteq Nat
    /\ Loop \in Tasks /\ ChainIds \subseteq Tasks /\ Loop \notin ChainIds
    /\ \A t \in Tasks : t \in ChainIds \/ t = Loop
    /\ \A r \in ContractAddresses : r.start_block_number \in Nat /\ r.chain_id \in ChainIds
    /\ \A e \in Events :
          /\ e.row \in ContractAddresses /\ e.row.chain_id \in ChainIds
          /\ e.table \in StateTables /\ e.op \in {"transfer", "burn"}
          /\ e.block_number \in Nat /\ e.block_number \in BlockNumbers /\ e.log_index \in Nat
          /\ e.key \in Keys
BY StatesAssumption, StateBoundsAssumption, UniqueRowsAssumption DEF BlockNumbers, Tasks, Keys

\* A row of a table of views, field by field.
LEMMA ViewFields ==
    ASSUME NEW v \in TypedViews
    PROVE  /\ v.table \in StateTables /\ v.group \in Nat /\ v.key \in Keys /\ v.count \in Nat
           /\ v.applied \in SUBSET Events /\ v.event \in Events
           /\ v # None
<1>1. v # None
  <2>1. "table" \in DOMAIN v
    BY DEF TypedViews
  <2>2. "table" \notin DOMAIN None
    BY DEF None
  <2> QED BY <2>1, <2>2
<1> QED BY <1>1 DEF TypedViews, Keys

LEMMA VersionFields ==
    ASSUME NEW v \in TypedVersions
    PROVE  v.view \in TypedViews /\ v.is_deleted \in BOOLEAN
BY DEF TypedVersions

LEMMA NewViewsOfVersion ==
    ASSUME NEW v \in TypedVersions
    PROVE  NewViews(v) \subseteq {v.view} /\ NewViews(v) \in SUBSET TypedViews
BY VersionFields DEF NewViews

LEMMA EmptyByLength ==
    ASSUME NEW S, NEW s \in Seq(S)
    PROVE  s = <<>> <=> Len(s) = 0
BY EmptySeq

\* The next version of a state keeps all but its count and the events applied.
LEMMA NextVersionOfState ==
    ASSUME NEW state \in TypedViews, NEW e \in Events
    PROVE  /\ NextVersion(state, e) \in TypedVersions
           /\ NextVersion(state, e).view.table = state.table
           /\ NextVersion(state, e).view.key = state.key
           /\ NextVersion(state, e).view.group = state.group
           /\ NextVersion(state, e).view.event = e
           /\ NextVersion(state, e).is_deleted <=> e.op = "burn"
           /\ e.op # "burn" => NextVersion(state, e).view.applied = state.applied \cup {e}
<1>1. /\ state.table \in StateTables /\ state.group \in Nat /\ state.key \in Keys
      /\ state.count + 1 \in Nat /\ state.count \in Nat
      /\ state.applied \in SUBSET Events /\ state.applied \cup {e} \in SUBSET Events
  BY ViewFields
<1> DEFINE burnt == [state EXCEPT !.event = e]
           counted == [state EXCEPT !.event = e, !.count = @ + 1, !.applied = @ \cup {e}]
<1>2. burnt \in TypedViews /\ counted \in TypedViews
  BY <1>1 DEF TypedViews, Keys
<1>3. /\ burnt.table = state.table /\ burnt.key = state.key /\ burnt.group = state.group
      /\ burnt.event = e
  BY DEF TypedViews
<1>4. /\ counted.table = state.table /\ counted.key = state.key /\ counted.group = state.group
      /\ counted.event = e /\ counted.applied = state.applied \cup {e}
  BY DEF TypedViews
<1>5. NextVersion(state, e) = IF e.op = "burn" THEN [view |-> burnt, is_deleted |-> TRUE]
                                               ELSE [view |-> counted, is_deleted |-> FALSE]
  BY DEF NextVersion
<1> HIDE DEF burnt, counted
<1>6. CASE e.op = "burn"
  <2>1. NextVersion(state, e).view = burnt /\ NextVersion(state, e).is_deleted = TRUE
    BY <1>5, <1>6
  <2>2. NextVersion(state, e) \in TypedVersions
    BY <1>2, <1>5, <1>6 DEF TypedVersions
  <2> QED BY <1>3, <1>6, <2>1, <2>2
<1>7. CASE e.op # "burn"
  <2>1. NextVersion(state, e).view = counted /\ NextVersion(state, e).is_deleted = FALSE
    BY <1>5, <1>7
  <2>2. NextVersion(state, e) \in TypedVersions
    BY <1>2, <1>5, <1>7 DEF TypedVersions
  <2> QED BY <1>4, <1>7, <2>1, <2>2
<1> QED BY <1>6, <1>7

LEMMA CreatedVersionOfEvent ==
    ASSUME NEW e \in Events, NewGroup \in Nat
    PROVE  /\ CreatedVersion(e) \in TypedVersions
           /\ CreatedVersion(e).view.table = e.table /\ CreatedVersion(e).view.key = e.key
           /\ CreatedVersion(e).view.group = NewGroup
           /\ CreatedVersion(e).view.event = e
           /\ CreatedVersion(e).view.applied = {e}
           /\ CreatedVersion(e).is_deleted = FALSE
BY Constants DEF CreatedVersion, TypedVersions, TypedViews, Keys

\* The image of a finite set is finite.
LEMMA FiniteImage ==
    ASSUME NEW S, IsFiniteSet(S), NEW f, DOMAIN f = S
    PROVE  IsFiniteSet({f[x] : x \in S})
<1> DEFINE T == {f[x] : x \in S}
<1>1. [x \in S |-> f[x]] \in Surjection(S, T)
  BY DEF Surjection
<1> QED BY <1>1, FS_Surjection

\* There is a group that nothing in use has.
LEMMA FreshGroup ==
    ASSUME InUse, \A v \in ViewsInUse : v.group \in Nat, groups \in SUBSET Nat
    PROVE  NewGroup \in Nat /\ NewGroup \notin GroupsInUse
<1> DEFINE n == Cardinality(GroupsInUse)
<1>1. IsFiniteSet({v.group : v \in ViewsInUse})
  <2> DEFINE f == [v \in ViewsInUse |-> v.group]
  <2>1. IsFiniteSet({f[v] : v \in ViewsInUse})
    <3>1. IsFiniteSet(ViewsInUse) /\ DOMAIN f = ViewsInUse
      BY DEF InUse
    <3> HIDE DEF f
    <3> QED BY <3>1, FiniteImage
  <2>2. {f[v] : v \in ViewsInUse} = {v.group : v \in ViewsInUse}
    OBVIOUS
  <2> QED BY <2>1, <2>2
<1>2. IsFiniteSet(GroupsInUse) /\ n \in Nat
  BY <1>1, FS_Union, FS_CardinalityType DEF InUse, GroupsInUse
<1>3. \E g \in 1..(n + 1) : g \notin GroupsInUse
  <2> SUFFICES ASSUME 1..(n + 1) \subseteq GroupsInUse  PROVE FALSE
    OBVIOUS
  <2>1. Cardinality(1..(n + 1)) = n + 1
    <3>1. 1 \in Int /\ n + 1 \in Int /\ ~ (1 > n + 1) /\ (n + 1) - 1 + 1 = n + 1
      BY <1>2
    <3> HIDE DEF n
    <3> QED BY <3>1, FS_Interval
  <2>2. Cardinality(1..(n + 1)) <= n
    <3>1. 1..(n + 1) \in SUBSET GroupsInUse
      OBVIOUS
    <3> QED BY <1>2, <3>1, FS_Subset
  <2> HIDE DEF n
  <2> QED BY <1>2, <2>1, <2>2
<1>4. NewGroup \in 1..(n + 1) /\ NewGroup \notin GroupsInUse
  BY <1>3 DEF NewGroup
<1> QED BY <1>2, <1>4

\* The events of a contract from a block on, as they are stored now.
Stored(r, from) == {e \in Events : e.row = r /\ IsStored(e) /\ e.block_number >= from}

LEMMA OrderOfEvents ==
    /\ \A e, f \in Events : Precedes(e, f) => ~ Precedes(f, e) /\ e # f
    /\ \A e, f, g \in Events : Precedes(e, f) /\ Precedes(f, g) => Precedes(e, g)
    /\ \A r, from : \A e, f \in Stored(r, from) : e = f \/ Precedes(e, f) \/ Precedes(f, e)
<1>1. /\ \A e, f \in Events : Precedes(e, f) => ~ Precedes(f, e) /\ e # f
      /\ \A e, f, g \in Events : Precedes(e, f) /\ Precedes(f, g) => Precedes(e, g)
  BY Constants DEF Precedes
<1>2. ASSUME NEW r, NEW from, NEW e \in Stored(r, from), NEW f \in Stored(r, from),
             ~ Precedes(e, f), ~ Precedes(f, e)
      PROVE  e = f
  <2>1. e \in Events /\ f \in Events /\ e.row = f.row /\ IsStored(e) /\ IsStored(f)
    BY DEF Stored
  <2>2. e.block_number = f.block_number /\ e.log_index = f.log_index
    BY <1>2, <2>1, Constants DEF Precedes
  <2>3. e.fork = f.fork
    BY <2>1, <2>2 DEF IsStored
  <2> QED BY <2>1, <2>2, <2>3, UniqueRowsAssumption
<1> QED BY <1>1, <1>2

RankAmong(stored, e) == Cardinality({f \in stored : Precedes(f, e)}) + 1

\* Among the events stored for a contract, each rank is that of one event.
LEMMA RanksOfEvents ==
    ASSUME NEW r, NEW from
    PROVE  /\ Cardinality(Stored(r, from)) \in Nat
           /\ \A e \in Stored(r, from) : RankAmong(Stored(r, from), e) \in 1..Cardinality(Stored(r, from))
           /\ \A e, f \in Stored(r, from) :
                 Precedes(e, f) => RankAmong(Stored(r, from), e) < RankAmong(Stored(r, from), f)
           /\ \A i \in 1..Cardinality(Stored(r, from)) :
                 \E e \in Stored(r, from) : RankAmong(Stored(r, from), e) = i
<1> DEFINE stored == Stored(r, from)
           Before(e) == {f \in stored : Precedes(f, e)}
           Rank(e) == Cardinality(Before(e)) + 1
           n == Cardinality(stored)
<1>1. stored \subseteq Events /\ IsFiniteSet(stored) /\ n \in Nat
  <2>1. stored \subseteq Events
    BY DEF Stored
  <2>2. IsFiniteSet(stored)
    BY <2>1, StateBoundsAssumption, FS_Subset
  <2> QED BY <2>1, <2>2, FS_CardinalityType
<1>2. ASSUME NEW e \in stored
      PROVE  IsFiniteSet(Before(e)) /\ Cardinality(Before(e)) \in Nat /\ Cardinality(Before(e)) < n
  <2>1. Before(e) \in SUBSET stored /\ e \notin Before(e)
    BY <1>1, OrderOfEvents
  <2>2. IsFiniteSet(Before(e)) /\ Cardinality(Before(e)) <= n /\ Cardinality(Before(e)) # n
    <3> HIDE DEF Before
    <3> QED BY <1>1, <2>1, FS_Subset
  <2>3. Cardinality(Before(e)) \in Nat
    BY <2>2, FS_CardinalityType
  <2> HIDE DEF Before, n
  <2> QED BY <1>1, <2>2, <2>3
<1>3. \A e \in stored : Rank(e) \in 1..n
  <2> HIDE DEF Before, n, stored
  <2> QED BY <1>1, <1>2
<1>4. ASSUME NEW e \in stored, NEW f \in stored, Precedes(e, f)
      PROVE  Rank(e) < Rank(f)
  <2>1. Before(e) \in SUBSET Before(f) /\ e \in Before(f) /\ e \notin Before(e)
    BY <1>1, <1>4, OrderOfEvents
  <2>2. Cardinality(Before(e)) <= Cardinality(Before(f)) /\ Cardinality(Before(e)) # Cardinality(Before(f))
    <3>1. IsFiniteSet(Before(f))
      BY <1>2
    <3> HIDE DEF Before
    <3> QED BY <2>1, <3>1, FS_Subset
  <2>3. Cardinality(Before(e)) \in Nat /\ Cardinality(Before(f)) \in Nat
    BY <1>2
  <2> HIDE DEF Before
  <2> QED BY <2>2, <2>3
<1>5. \A i \in 1..n : \E e \in stored : Rank(e) = i
  <2> DEFINE rank == [e \in stored |-> Rank(e)]
  <2>1. rank \in [stored -> 1..n]
    <3> HIDE DEF Rank, n
    <3> QED BY <1>3
  <2>2. \A e, f \in stored : e # f => Rank(e) # Rank(f)
    <3> SUFFICES ASSUME NEW e \in stored, NEW f \in stored, e # f  PROVE Rank(e) # Rank(f)
      OBVIOUS
    <3>1. Precedes(e, f) \/ Precedes(f, e)
      BY OrderOfEvents
    <3>2. Rank(e) < Rank(f) \/ Rank(f) < Rank(e)
      BY <3>1, <1>4
    <3>3. Rank(e) \in 1..n /\ Rank(f) \in 1..n
      BY <1>3
    <3> HIDE DEF Rank, n
    <3> QED BY <3>2, <3>3, <1>1
  <2>3. rank \in Injection(stored, 1..n)
    <3>1. \A e, f \in stored : rank[e] = rank[f] => e = f
      BY <2>2
    <3> HIDE DEF rank, n, stored
    <3> QED BY <2>1, <3>1 DEF Injection, IsInjective
  <2>4. Cardinality(1..n) = n /\ IsFiniteSet(1..n)
    <3>1. CASE n = 0
      <4>1. 1..n = {}
        <5> HIDE DEF n
        <5> QED BY <3>1
      <4> HIDE DEF n
      <4> QED BY <3>1, <4>1, FS_EmptySet
    <3>2. CASE n # 0
      <4>1. 1 \in Int /\ n \in Int /\ ~ (1 > n) /\ n - 1 + 1 = n
        <5> HIDE DEF n
        <5> QED BY <1>1, <3>2
      <4> HIDE DEF n
      <4> QED BY <4>1, FS_Interval
    <3> QED BY <3>1, <3>2
  <2>5. rank \in Surjection(stored, 1..n)
    <3>1. n = Cardinality(stored)
      OBVIOUS
    <3> HIDE DEF rank, n, stored
    <3> QED BY <2>3, <2>4, <3>1, FS_Injection
  <2>6. \A i \in 1..n : \E e \in stored : rank[e] = i
    <3> HIDE DEF rank, n, stored
    <3> QED BY <2>5 DEF Surjection
  <2> HIDE DEF Rank, n
  <2> QED BY <2>6
<1>6. \A e : RankAmong(stored, e) = Rank(e)
  BY DEF RankAmong
<1> HIDE DEF Rank
<1> QED BY <1>1, <1>3, <1>4, <1>5, <1>6

\* A batch is the first events stored for its contract, in their order.
LEMMA LoadedEvents ==
    ASSUME NEW r, NEW from
    PROVE  LET loaded == LoadEvents(r, from)
           IN  /\ loaded \in Seq(Events)
               /\ \A i \in 1..Len(loaded) :
                     /\ loaded[i] \in Stored(r, from)
                     /\ \A j \in 1..Len(loaded) : i < j => Precedes(loaded[i], loaded[j])
                     /\ \A e \in Stored(r, from) :
                           Precedes(e, loaded[i]) => \E j \in 1..Len(loaded) : j < i /\ loaded[j] = e
<1> DEFINE stored == Stored(r, from)
           Rank(e) == RankAmong(stored, e)
           n == Cardinality(stored)
           m == Smaller(BlocksPerBatch, n)
           loaded == LoadEvents(r, from)
<1>1. /\ n \in Nat
      /\ \A e \in stored : Rank(e) \in 1..n
      /\ \A e, f \in stored : Precedes(e, f) => Rank(e) < Rank(f)
      /\ \A i \in 1..n : \E e \in stored : Rank(e) = i
  BY RanksOfEvents
<1>2. loaded = [i \in 1..m |-> CHOOSE e \in stored : Rank(e) = i]
  BY DEF LoadEvents, Stored, RankAmong
<1>3. m \in Nat /\ m <= n
  <2> HIDE DEF n
  <2> QED BY <1>1, BlocksPerBatchAssumption DEF Smaller
<1> HIDE DEF Rank, n, m, loaded
<1>4. \A i \in 1..m : loaded[i] \in stored /\ Rank(loaded[i]) = i
  <2> SUFFICES ASSUME NEW i \in 1..m  PROVE loaded[i] \in stored /\ Rank(loaded[i]) = i
    OBVIOUS
  <2>1. \E e \in stored : Rank(e) = i
    BY <1>1, <1>3
  <2>2. loaded[i] = CHOOSE e \in stored : Rank(e) = i
    BY <1>2
  <2> QED BY <2>1, <2>2
<1>5. stored \subseteq Events
  BY DEF Stored
<1>6. loaded \in Seq(Events) /\ Len(loaded) = m
  <2>1. loaded \in [1..m -> Events]
    BY <1>2, <1>4, <1>5
  <2> QED BY <1>3, <2>1
<1>7. \A e, f \in stored : Rank(e) = Rank(f) => e = f
  <2> SUFFICES ASSUME NEW e \in stored, NEW f \in stored, Rank(e) = Rank(f), e # f  PROVE FALSE
    OBVIOUS
  <2>1. Precedes(e, f) \/ Precedes(f, e)
    BY OrderOfEvents
  <2> QED BY <1>1, <2>1
<1>8. ASSUME NEW i \in 1..m, NEW j \in 1..m, i < j
      PROVE  Precedes(loaded[i], loaded[j])
  <2>1. loaded[i] # loaded[j] /\ ~ Precedes(loaded[j], loaded[i])
    BY <1>1, <1>3, <1>4, <1>8
  <2> QED BY <1>4, <2>1, OrderOfEvents
<1>9. ASSUME NEW i \in 1..m, NEW e \in stored, Precedes(e, loaded[i])
      PROVE  \E j \in 1..m : j < i /\ loaded[j] = e
  <2>1. Rank(e) \in 1..n /\ Rank(e) < i
    BY <1>1, <1>4, <1>9
  <2>2. Rank(e) \in 1..m
    BY <1>3, <2>1
  <2>3. loaded[Rank(e)] = e
    BY <1>4, <1>7, <2>2
  <2> QED BY <2>1, <2>2, <2>3
<1> HIDE DEF stored
<1>10. /\ loaded \in Seq(Events)
       /\ \A i \in 1..Len(loaded) :
             /\ loaded[i] \in stored
             /\ \A j \in 1..Len(loaded) : i < j => Precedes(loaded[i], loaded[j])
             /\ \A e \in stored : Precedes(e, loaded[i]) => \E j \in 1..Len(loaded) : j < i /\ loaded[j] = e
  BY <1>4, <1>6, <1>8, <1>9
<1> QED BY <1>10 DEF loaded, stored

-----------------------------------------------------------------------------
(* What the statements of a task do to it *)

LEMMA TxnFields ==
    ASSUME ExecutionTypes, NEW t \in Tasks
    PROVE  /\ txn[t] \in Txns
           /\ txn[t].appended \in SUBSET TypedVersions /\ txn[t].dropped \in SUBSET TypedVersions
           /\ txn[t].inserted \in SUBSET TypedViews /\ txn[t].deleted \in SUBSET TypedViews
           /\ targets[t] \in SUBSET TypedViews
           /\ refreshing[t] \in Seq(TypedVersions)
           /\ \A i \in 1..Len(refreshing[t]) : refreshing[t][i] \in TypedVersions
           /\ pc[t] \in PcValues
BY DEF ExecutionTypes, Txns

LEMMA EmptyTxnFields ==
    /\ EmptyTxn \in Txns
    /\ EmptyTxn.appended = {} /\ EmptyTxn.dropped = {} /\ EmptyTxn.inserted = {} /\ EmptyTxn.deleted = {}
BY DEF EmptyTxn, Txns

LEMMA VisibleTyped ==
    ASSUME TableTypes, ExecutionTypes, NEW t \in Tasks
    PROVE  VisibleVersions(t) \in SUBSET TypedVersions /\ VisibleViews(t) \in SUBSET TypedViews
BY TxnFields DEF TableTypes, VisibleVersions, VisibleViews

\* Another task is as it was, but for rows it waits for that are gone.
IsKept(u) ==
    /\ pc'[u] = pc[u] /\ txn'[u] = txn[u] /\ refreshing'[u] = refreshing[u]
    /\ targets'[u] \subseteq targets[u]

LEMMA PanicEffect ==
    ASSUME ExecutionTypes, NEW t \in Tasks, Panic(t)
    PROVE  /\ ExecutionTypes'
           /\ pc'[t] = "dead" /\ txn'[t] = EmptyTxn /\ targets'[t] = {} /\ refreshing'[t] = <<>>
           /\ \A u \in Tasks \ {t} : IsKept(u)
<1>1. "dead" \in PcValues /\ <<>> \in Seq(TypedVersions)
  BY DEF PcValues
<1> QED BY <1>1, EmptyTxnFields DEF ExecutionTypes, Panic, Put, IsKept

LEMMA AppendVersionEffect ==
    ASSUME ExecutionTypes, NEW t \in Tasks, NEW version \in TypedVersions, AppendVersion(t, version)
    PROVE  /\ ExecutionTypes'
           /\ \A u \in Tasks \ {t} : IsKept(u)
           /\ \/ Panic(t)
              \/ /\ pc'[t] = "refresh" /\ refreshing'[t] = <<version>> /\ targets'[t] = targets[t]
                 /\ txn'[t].appended = txn[t].appended \cup {version}
                 /\ txn'[t].dropped = txn[t].dropped
                 /\ txn'[t].inserted = txn[t].inserted /\ txn'[t].deleted = txn[t].deleted
<1>1. CASE Panic(t)
  BY <1>1, PanicEffect
<1>2. CASE ~ Panic(t)
  <2>1. /\ txn' = [txn EXCEPT ![t].appended = @ \cup {version}]
        /\ refreshing' = Put(refreshing, t, <<version>>)
        /\ pc' = Put(pc, t, "refresh")
        /\ UNCHANGED targets
    BY <1>2 DEF AppendVersion
  <2>2. <<version>> \in Seq(TypedVersions) /\ "refresh" \in PcValues
    BY DEF PcValues
  <2>3. txn' \in [Tasks -> Txns]
    BY <2>1 DEF ExecutionTypes, Txns
  <2>4. /\ txn'[t].appended = txn[t].appended \cup {version}
        /\ txn'[t].dropped = txn[t].dropped
        /\ txn'[t].inserted = txn[t].inserted /\ txn'[t].deleted = txn[t].deleted
    BY <2>1 DEF ExecutionTypes, Txns
  <2>5. \A u \in Tasks \ {t} : txn'[u] = txn[u]
    BY <2>1 DEF ExecutionTypes
  <2>6. ExecutionTypes'
    BY <2>1, <2>2, <2>3 DEF ExecutionTypes, Put
  <2> QED BY <2>1, <2>4, <2>5, <2>6 DEF ExecutionTypes, Put, IsKept
<1> QED BY <1>1, <1>2

LEMMA FinishRefreshEffect ==
    ASSUME TableTypes, ExecutionTypes, NEW t \in Tasks, refreshing[t] # <<>>,
           NEW found \in SUBSET TypedViews, FinishRefresh(t, found)
    PROVE  /\ ExecutionTypes'
           /\ \A u \in Tasks \ {t} : IsKept(u)
           /\ pc'[t] = AfterRefresh(t) /\ targets'[t] = {}
           /\ refreshing'[t] = Tail(refreshing[t])
           /\ txn'[t].appended = txn[t].appended
           /\ txn'[t].dropped = txn[t].dropped
           /\ txn'[t].inserted = (txn[t].inserted \ found) \cup NewViews(Head(refreshing[t]))
           /\ txn'[t].deleted = txn[t].deleted \cup (found \cap views)
<1> DEFINE new == NewViews(Head(refreshing[t]))
<1>1. /\ txn' = [txn EXCEPT ![t].deleted  = @ \cup (found \cap views),
                            ![t].inserted = (@ \ found) \cup new]
      /\ refreshing' = Put(refreshing, t, Tail(refreshing[t]))
      /\ targets' = Put(targets, t, {})
      /\ pc' = Put(pc, t, AfterRefresh(t))
  BY DEF FinishRefresh, RefreshedTxn
<1>2. Head(refreshing[t]) \in TypedVersions /\ Tail(refreshing[t]) \in Seq(TypedVersions)
  BY TxnFields, HeadTailProperties
<1>3. new \in SUBSET TypedViews
  BY <1>2, NewViewsOfVersion
<1>4. AfterRefresh(t) \in PcValues
  BY DEF AfterRefresh, PcValues
<1> HIDE DEF new
<1>5. txn' \in [Tasks -> Txns]
  BY <1>1, <1>3 DEF ExecutionTypes, Txns
<1>6. /\ txn'[t].appended = txn[t].appended
      /\ txn'[t].dropped = txn[t].dropped
      /\ txn'[t].inserted = (txn[t].inserted \ found) \cup new
      /\ txn'[t].deleted = txn[t].deleted \cup (found \cap views)
  BY <1>1 DEF ExecutionTypes, Txns
<1>7. \A u \in Tasks \ {t} : txn'[u] = txn[u]
  BY <1>1 DEF ExecutionTypes
<1>8. ExecutionTypes'
  BY <1>1, <1>2, <1>4, <1>5 DEF ExecutionTypes, Put
<1> QED BY <1>1, <1>6, <1>7, <1>8 DEF ExecutionTypes, Put, IsKept, new

LEMMA CommitEffect ==
    ASSUME TableTypes, ExecutionTypes, NEW t \in Tasks, NEW p \in PcValues,
           Commit(t), pc' = Put(pc, t, p), UNCHANGED refreshing
    PROVE  /\ ExecutionTypes'
           /\ versions' \in SUBSET TypedVersions /\ views' \in SUBSET TypedViews
           /\ \A u \in Tasks \ {t} : IsKept(u)
           /\ pc'[t] = p /\ txn'[t] = EmptyTxn /\ targets'[t] \subseteq targets[t]
<1>1. versions' \in SUBSET TypedVersions /\ views' \in SUBSET TypedViews
  BY TxnFields DEF Commit, TableTypes
<1>2. ExecutionTypes'
  BY EmptyTxnFields DEF Commit, Put, ExecutionTypes
<1> QED BY <1>1, <1>2 DEF Commit, Put, ExecutionTypes, IsKept

-----------------------------------------------------------------------------
(* Type correctness *)

IsKeptSubtask(c) ==
    /\ streamed'[c] = streamed[c] /\ batch'[c] = batch[c]
    /\ at'[c] = at[c] /\ held'[c] = held[c]

LEMMA TaskControlKept ==
    ASSUME NEW t \in Tasks, ControlOfTask(t), IsKept(t)
    PROVE  ControlOfTask(t)'
BY DEF ControlOfTask, IsKept

LEMMA SubtaskControlKept ==
    ASSUME NEW c \in ChainIds, ControlOfSubtask(c), IsKept(c), IsKeptSubtask(c)
    PROVE  ControlOfSubtask(c)'
BY DEF ControlOfSubtask, IsKept, IsKeptSubtask, event

LEMMA LoopControlKept ==
    ASSUME ControlOfLoop, IsKept(Loop), UNCHANGED <<deferred, groups>>
    PROVE  ControlOfLoop'
BY DEF ControlOfLoop, IsKept

\* A step of one subtask leaves the others and the loop where they are.
LEMMA StepOfSubtask ==
    ASSUME Control, NEW c \in ChainIds, \A u \in Tasks \ {c} : IsKept(u),
           \A d \in ChainIds \ {c} : IsKeptSubtask(d),
           ControlOfTask(c)', ControlOfSubtask(c)', UNCHANGED <<deferred, groups>>
    PROVE  Control'
<1>1. ASSUME NEW t \in Tasks  PROVE ControlOfTask(t)'
  BY TaskControlKept DEF Control
<1>2. ASSUME NEW d \in ChainIds  PROVE ControlOfSubtask(d)'
  BY SubtaskControlKept, Constants DEF Control
<1>3. ControlOfLoop'
  BY LoopControlKept, Constants DEF Control
<1> QED BY <1>1, <1>2, <1>3 DEF Control

\* A step of the loop leaves the subtasks where they are.
LEMMA StepOfLoop ==
    ASSUME Control, \A u \in Tasks \ {Loop} : IsKept(u), UNCHANGED subtasks,
           ControlOfTask(Loop)', ControlOfLoop'
    PROVE  Control'
<1>1. ASSUME NEW t \in Tasks  PROVE ControlOfTask(t)'
  BY TaskControlKept DEF Control
<1>2. ASSUME NEW d \in ChainIds  PROVE ControlOfSubtask(d)'
  <2>1. IsKeptSubtask(d)
    BY DEF subtasks, IsKeptSubtask
  <2> QED BY <2>1, SubtaskControlKept, Constants DEF Control
<1> QED BY <1>1, <1>2 DEF Control

LEMMA InitTypes == Init => Types /\ Control
<1> SUFFICES ASSUME Init PROVE Types /\ Control
  OBVIOUS
<1>1. TableTypes
  BY Constants, FS_EmptySet DEF Init, TableTypes, BlockNumbers
<1>2. ExecutionTypes
  BY EmptyTxnFields DEF Init, ExecutionTypes, PcValues
<1>3. SubtaskTypes /\ LoopTypes
  BY DEF Init, SubtaskTypes, LoopTypes
<1>4. \A t \in Tasks : ControlOfTask(t)
  BY Constants DEF Init, ControlOfTask
<1>5. \A c \in ChainIds : ControlOfSubtask(c)
  BY Constants, EmptyTxnFields DEF Init, ControlOfSubtask
<1>6. ControlOfLoop
  BY Constants, EmptyTxnFields DEF Init, ControlOfLoop
<1> QED BY <1>1, <1>2, <1>3, <1>4, <1>5, <1>6 DEF Types, Control

LEMMA IngesterTypes ==
    ASSUME Types, Control, NEW c \in ChainIds, ReorgChain(c) \/ PruneStateVersions(c) \/ Crash
    PROVE  Types' /\ Control'
<1>1. CASE ReorgChain(c)
  <2>1. PICK from \in BlockNumbers :
          /\ Cardinality(reorged_blocks) < MaxReorgs
          /\ fork' = [fork EXCEPT ![c] = [b \in BlockNumbers |->
                         IF b >= from THEN Cardinality(reorged_blocks) + 1 ELSE @[b]]]
          /\ reorged_blocks' = reorged_blocks \cup
                {[id |-> Cardinality(reorged_blocks) + 1, chain_id |-> c, block_number |-> from]}
    BY <1>1 DEF ReorgChain
  <2>2. UNCHANGED <<prunes, crashes, tables, execution, pc, subtasks, deferred, loop>>
    BY <1>1 DEF ReorgChain
  <2>3. Cardinality(reorged_blocks) + 1 \in 1..MaxReorgs /\ Cardinality(reorged_blocks) + 1 \in 0..MaxReorgs
    BY <2>1, Constants, FS_CardinalityType DEF Types, TableTypes
  <2>4. /\ fork' \in [ChainIds -> [BlockNumbers -> 0..MaxReorgs]]
        /\ reorged_blocks' \in SUBSET ReorgRows
    BY <2>1, <2>3 DEF Types, TableTypes, ReorgRows
  <2>5. IsFiniteSet(reorged_blocks')
    BY <2>1, FS_AddElement DEF Types, TableTypes
  <2>6. Types'
    BY <2>2, <2>4, <2>5 DEF Types, TableTypes, ExecutionTypes, SubtaskTypes, LoopTypes,
                            tables, execution, subtasks, loop
  <2>7. Control'
    BY <2>2 DEF Control, ControlOfTask, ControlOfSubtask, ControlOfLoop, event,
                execution, subtasks, loop
  <2> QED BY <2>6, <2>7
<1>2. CASE PruneStateVersions(c)
  <2>1. /\ UNCHANGED <<fork, reorged_blocks, next_block_number_to_handle_from, views>>
        /\ UNCHANGED <<execution, pc, subtasks, deferred, loop>>
        /\ versions' \subseteq versions
    BY <1>2 DEF PruneStateVersions
  <2>2. Types'
    BY <2>1 DEF Types, TableTypes, ExecutionTypes, SubtaskTypes, LoopTypes,
                            tables, execution, subtasks, loop
  <2>3. Control'
    BY <2>1 DEF Control, ControlOfTask, ControlOfSubtask, ControlOfLoop, event,
                execution, subtasks, loop
  <2> QED BY <2>2, <2>3
<1>3. CASE Crash
  <2>1. TableTypes'
    BY <1>3 DEF Crash, ingester, tables, Types, TableTypes
  <2>2. ExecutionTypes'
    BY <1>3, EmptyTxnFields DEF Crash, ExecutionTypes, PcValues
  <2>3. SubtaskTypes' /\ LoopTypes'
    BY <1>3 DEF Crash, SubtaskTypes, LoopTypes
  <2>4. \A t \in Tasks : ControlOfTask(t)'
    BY <1>3, Constants DEF Crash, ControlOfTask
  <2>5. \A d \in ChainIds : ControlOfSubtask(d)'
    BY <1>3, Constants, EmptyTxnFields DEF Crash, ControlOfSubtask
  <2>6. ControlOfLoop'
    BY <1>3, Constants, EmptyTxnFields DEF Crash, ControlOfLoop
  <2> QED BY <2>1, <2>2, <2>3, <2>4, <2>5, <2>6 DEF Types, Control
<1> QED BY <1>1, <1>2, <1>3

\* The rows a refresh finds are of the version's group.
LEMMA RefreshTypes ==
    ASSUME Types, Control, NEW t \in Tasks, RefreshView(t) \/ ResumeRefresh(t)
    PROVE  Types' /\ Control'
<1>1. UNCHANGED <<ingester, crashes, tables, subtasks, deferred, loop>>
  BY DEF RefreshView, ResumeRefresh
<1>2. TableTypes' /\ SubtaskTypes' /\ LoopTypes'
  BY <1>1 DEF ingester, tables, subtasks, loop, Types, TableTypes, SubtaskTypes, LoopTypes
<1>3. pc[t] \in {"refresh", "waiting"} /\ refreshing[t] # <<>>
  BY DEF RefreshView, ResumeRefresh, Control, ControlOfTask
<1>4. refreshing[t] \in Seq(TypedVersions) /\ Len(refreshing[t]) \in Nat \ {0}
  BY <1>3, TxnFields, EmptySeq DEF Types
<1> DEFINE seen == {v \in VisibleViews(t) : v.group = Head(refreshing[t]).view.group}
<1>5. CASE /\ pc[t] = "refresh"
           /\ targets' = Put(targets, t, seen)
           /\ pc' = Put(pc, t, "waiting")
           /\ UNCHANGED <<txn, refreshing>>
  <2>1. seen \in SUBSET TypedViews /\ "waiting" \in PcValues
    BY VisibleTyped DEF Types, PcValues
  <2>2. ExecutionTypes'
    BY <1>5, <2>1 DEF Put, Types, ExecutionTypes
  <2>3. /\ pc'[t] = "waiting" /\ targets'[t] = seen
        /\ txn'[t] = txn[t] /\ refreshing'[t] = refreshing[t]
    BY <1>5, <2>1 DEF Put, Types, ExecutionTypes
  <2>4. \A u \in Tasks \ {t} : IsKept(u)
    BY <1>5 DEF Put, Types, ExecutionTypes, IsKept
  <2>5. ControlOfTask(t)'
    BY <1>3, <1>5, <2>3 DEF Control, ControlOfTask
  <2>6. CASE t = Loop
    <3>1. ControlOfLoop'
      BY <1>1, <1>5, <2>3, <2>6 DEF Control, ControlOfLoop, loop
    <3> QED BY <1>1, <1>2, <2>2, <2>4, <2>5, <2>6, <3>1, StepOfLoop DEF Types
  <2>7. CASE t \in ChainIds
    <3>1. ControlOfSubtask(t)'
      BY <1>1, <1>5, <2>3, <2>7 DEF Control, ControlOfSubtask, event, subtasks
    <3>2. \A d \in ChainIds : IsKeptSubtask(d)
      BY <1>1 DEF IsKeptSubtask, subtasks
    <3> QED BY <1>1, <1>2, <2>2, <2>4, <2>5, <2>7, <3>1, <3>2, StepOfSubtask DEF Types, loop
  <2> QED BY <2>6, <2>7, Constants
<1>6. ASSUME NEW found \in SUBSET TypedViews, FinishRefresh(t, found)
      PROVE  Types' /\ Control'
  <2>1. /\ ExecutionTypes'
        /\ \A u \in Tasks \ {t} : IsKept(u)
        /\ pc'[t] = AfterRefresh(t) /\ targets'[t] = {}
        /\ refreshing'[t] = Tail(refreshing[t])
        /\ txn'[t].appended = txn[t].appended /\ txn'[t].dropped = txn[t].dropped
    BY <1>3, <1>6, FinishRefreshEffect DEF Types
  <2>2. Len(Tail(refreshing[t])) = Len(refreshing[t]) - 1 /\ Tail(refreshing[t]) \in Seq(TypedVersions)
    BY <1>3, <1>4, HeadTailProperties
  <2>3. Tail(refreshing[t]) = <<>> <=> Len(refreshing[t]) = 1
    <3>1. Tail(refreshing[t]) = <<>> <=> Len(Tail(refreshing[t])) = 0
      BY <2>2, EmptyByLength
    <3> QED BY <1>4, <2>2, <3>1
  <2>4. CASE t = Loop
    <3>1. pc'[t] = IF Len(refreshing[t]) = 1 THEN "backtrack" ELSE "refresh"
      BY <2>1, <2>4 DEF AfterRefresh
    <3>2. ControlOfTask(t)'
      BY <2>1, <2>3, <2>4, <3>1 DEF ControlOfTask
    <3>3. ControlOfLoop'
      BY <1>1, <1>3, <2>1, <2>4, <3>1 DEF Control, ControlOfLoop, loop
    <3> QED BY <1>1, <1>2, <2>1, <2>4, <3>2, <3>3, StepOfLoop DEF Types
  <2>5. CASE t \in ChainIds
    <3>1. pc'[t] = "handle" /\ t # Loop
      BY <2>1, <2>5, Constants DEF AfterRefresh
    <3>2. Len(refreshing[t]) = 1 /\ Tail(refreshing[t]) = <<>>
      BY <1>4, <2>3, <2>5 DEF Control, ControlOfSubtask
    <3>3. ControlOfTask(t)'
      BY <2>1, <3>1, <3>2 DEF ControlOfTask
    <3>4. ControlOfSubtask(t)'
      BY <1>1, <1>3, <2>1, <2>5, <3>1, <3>2, EmptySeq DEF Control, ControlOfSubtask, event, subtasks
    <3>5. \A d \in ChainIds : IsKeptSubtask(d)
      BY <1>1 DEF IsKeptSubtask, subtasks
    <3> QED BY <1>1, <1>2, <2>1, <2>5, <3>3, <3>4, <3>5, StepOfSubtask DEF Types, loop
  <2> QED BY <2>4, <2>5, Constants
<1>7. seen \in SUBSET TypedViews /\ targets[t] \in SUBSET TypedViews
  BY VisibleTyped, TxnFields DEF Types
<1>8. CASE RefreshView(t)
  BY <1>5, <1>6, <1>7, <1>8 DEF RefreshView
<1>9. CASE ResumeRefresh(t)
  BY <1>6, <1>7, <1>9 DEF ResumeRefresh
<1> QED BY <1>8, <1>9

LEMMA PanicTypes ==
    ASSUME Types, Control, NEW t \in Tasks, Panic(t),
           UNCHANGED <<ingester, tables, subtasks, deferred, earliest, groups>>,
           backtracking' \subseteq backtracking
    PROVE  Types' /\ Control'
<1>1. /\ ExecutionTypes'
      /\ pc'[t] = "dead" /\ txn'[t] = EmptyTxn /\ targets'[t] = {} /\ refreshing'[t] = <<>>
      /\ \A u \in Tasks \ {t} : IsKept(u)
  BY PanicEffect DEF Types
<1>2. TableTypes' /\ SubtaskTypes' /\ LoopTypes'
  BY DEF ingester, tables, subtasks, Types, TableTypes, SubtaskTypes, LoopTypes
<1>3. ControlOfTask(t)'
  BY <1>1 DEF ControlOfTask
<1>4. CASE t = Loop
  <2>1. ControlOfLoop'
    BY <1>1, <1>4, EmptyTxnFields DEF Control, ControlOfLoop
  <2> QED BY <1>1, <1>2, <1>3, <1>4, <2>1, StepOfLoop DEF Types
<1>5. CASE t \in ChainIds
  <2>1. ControlOfSubtask(t)'
    BY <1>1, <1>5, EmptyTxnFields DEF Control, ControlOfSubtask, event, subtasks
  <2>2. \A d \in ChainIds : IsKeptSubtask(d)
    BY DEF IsKeptSubtask, subtasks
  <2> QED BY <1>1, <1>2, <1>3, <1>5, <2>1, <2>2, StepOfSubtask DEF Types
<1> QED BY <1>4, <1>5, Constants

LEMMA StreamTypes ==
    ASSUME Types, Control, NEW c \in ChainIds, StreamContractAddresses(c)
    PROVE  Types' /\ Control'
<1>1. /\ UNCHANGED <<ingester, crashes, tables, execution, pc, batch, at, held, deferred, loop>>
      /\ streamed' = Put(streamed, c, {[row |-> r, from |-> next_block_number_to_handle_from[r]] :
                                          r \in {q \in ContractAddresses : q.chain_id = c}})
  BY DEF StreamContractAddresses
<1> DEFINE new == {[row |-> r, from |-> next_block_number_to_handle_from[r]] :
                      r \in {q \in ContractAddresses : q.chain_id = c}}
<1>2. new \in SUBSET [row : ContractAddresses, from : Nat] /\ \A a \in new : a.row.chain_id = c
  BY DEF Types, TableTypes
<1> HIDE DEF new
<1>3. Types'
  BY <1>1, <1>2 DEF Put, ingester, tables, execution, loop, Types, TableTypes, ExecutionTypes,
                    SubtaskTypes, LoopTypes, new
<1>4. streamed'[c] = new
  BY <1>1 DEF Put, Types, SubtaskTypes, new
<1>5. ControlOfSubtask(c)'
  <2>1. ControlOfSubtask(c)
    BY DEF Control
  <2> QED BY <1>1, <1>2, <1>4, <2>1 DEF ControlOfSubtask, event, execution
<1>6. ControlOfTask(c)'
  BY <1>1, Constants DEF Control, ControlOfTask, execution
<1>7. \A u \in Tasks : IsKept(u)
  BY <1>1 DEF IsKept, execution
<1>8. \A d \in ChainIds \ {c} : IsKeptSubtask(d)
  BY <1>1 DEF IsKeptSubtask, Put, Types, SubtaskTypes
<1>9. UNCHANGED <<deferred, groups>>
  BY <1>1 DEF loop
<1> QED BY <1>3, <1>5, <1>6, <1>7, <1>8, <1>9, StepOfSubtask

LEMMA BeginTypes ==
    ASSUME Types, Control, NEW c \in ChainIds, BeginTransaction(c)
    PROVE  Types' /\ Control'
<1>1. PICK a \in streamed[c] :
        /\ streamed' = Put(streamed, c, streamed[c] \ {a})
        /\ batch' = Put(batch, c, LoadEvents(a.row, a.from))
  BY DEF BeginTransaction
<1>2. /\ pc[c] = "stream" /\ at' = Put(at, c, 1) /\ pc' = Put(pc, c, "handle")
      /\ UNCHANGED <<ingester, crashes, tables, execution, held, deferred, loop>>
  BY DEF BeginTransaction
<1> DEFINE loaded == LoadEvents(a.row, a.from)
<1>3. /\ loaded \in Seq(Events)
      /\ \A i \in 1..Len(loaded) : loaded[i] \in Stored(a.row, a.from)
  BY LoadedEvents
<1>4. a.row.chain_id = c
  BY DEF Control, ControlOfSubtask
<1>5. \A i \in 1..Len(loaded) : loaded[i].row.chain_id = c
  BY <1>3, <1>4 DEF Stored
<1> HIDE DEF loaded
<1>6. "handle" \in PcValues
  BY DEF PcValues
<1>7. TableTypes' /\ LoopTypes'
  BY <1>2 DEF ingester, tables, loop, Types, TableTypes, LoopTypes
<1>8. ExecutionTypes'
  BY <1>2, <1>6 DEF Put, execution, Types, ExecutionTypes
<1>9. batch' = Put(batch, c, loaded)
  BY <1>1 DEF loaded
<1>10. /\ SubtaskTypes'
       /\ streamed'[c] = streamed[c] \ {a} /\ batch'[c] = loaded /\ at'[c] = 1
       /\ pc'[c] = "handle" /\ held'[c] = held[c]
  <2>1. SubtaskTypes'
    BY <1>1, <1>2, <1>3, <1>9 DEF Put, Types, SubtaskTypes
  <2>2. streamed'[c] = streamed[c] \ {a} /\ batch'[c] = loaded /\ at'[c] = 1
    BY <1>1, <1>2, <1>9 DEF Put, Types, SubtaskTypes
  <2>3. pc'[c] = "handle" /\ held'[c] = held[c]
    BY <1>2, Constants DEF Put, Types, ExecutionTypes
  <2> QED BY <2>1, <2>2, <2>3
<1>11. ControlOfTask(c)'
  BY <1>2, <1>10, Constants DEF Control, ControlOfTask, execution
<1>12. ControlOfSubtask(c)'
  <2>1. Len(loaded) \in Nat
    BY <1>3
  <2>2. held[c] = None
    BY <1>2 DEF Control, ControlOfSubtask
  <2> QED BY <1>2, <1>5, <1>10, <2>1, <2>2 DEF Control, ControlOfSubtask, execution
<1>13. \A u \in Tasks \ {c} : IsKept(u)
  BY <1>2 DEF IsKept, execution, Put, Types, ExecutionTypes
<1>14. \A d \in ChainIds \ {c} : IsKeptSubtask(d)
  BY <1>1, <1>2 DEF IsKeptSubtask, Put, Types, SubtaskTypes
<1>15. UNCHANGED <<deferred, groups>>
  BY <1>2 DEF loop
<1> QED BY <1>7, <1>8, <1>10, <1>11, <1>12, <1>13, <1>14, <1>15, StepOfSubtask DEF Types

\* A version is appended for the event at hand, and the subtask goes on to the next.
LEMMA AppendTypes ==
    ASSUME Types, Control, NEW c \in ChainIds, NEW version \in TypedVersions,
           AppendVersion(c, version), pc[c] \in {"handle", "mutate"}, at[c] <= Len(batch[c]),
           at' = Put(at, c, at[c] + 1), held' = held \/ held' = Put(held, c, None),
           held'[c] = None,
           UNCHANGED <<ingester, crashes, tables, streamed, batch, deferred, loop>>
    PROVE  Types' /\ Control'
<1>1. TableTypes' /\ LoopTypes'
  BY DEF ingester, tables, loop, Types, TableTypes, LoopTypes
<1>2. SubtaskTypes'
  <2>1. at[c] + 1 \in Nat \ {0}
    BY DEF Types, SubtaskTypes
  <2>2. at' \in [ChainIds -> Nat \ {0}]
    BY <2>1 DEF Put, Types, SubtaskTypes
  <2>3. held' \in [ChainIds -> TypedViews \cup {None}]
    BY DEF Put, Types, SubtaskTypes
  <2> QED BY <2>2, <2>3 DEF Types, SubtaskTypes
<1>3. /\ ExecutionTypes'
      /\ \A u \in Tasks \ {c} : IsKept(u)
      /\ \/ Panic(c)
         \/ /\ pc'[c] = "refresh" /\ refreshing'[c] = <<version>> /\ targets'[c] = targets[c]
            /\ txn'[c].dropped = txn[c].dropped
  BY AppendVersionEffect, Constants DEF Types
<1>4. \A d \in ChainIds \ {c} : IsKeptSubtask(d)
  BY DEF IsKeptSubtask, Put, Types, SubtaskTypes
<1>5. at'[c] = at[c] + 1 /\ batch'[c] = batch[c] /\ streamed'[c] = streamed[c]
  BY DEF Put, Types, SubtaskTypes
<1>6. at[c] + 1 <= Len(batch[c]) + 1
  BY DEF Types, SubtaskTypes
<1>7. CASE Panic(c)
  <2>1. pc'[c] = "dead" /\ txn'[c] = EmptyTxn /\ targets'[c] = {} /\ refreshing'[c] = <<>>
    BY <1>7, PanicEffect, Constants DEF Types
  <2>2. ControlOfTask(c)'
    BY <2>1, Constants DEF ControlOfTask
  <2>3. ControlOfSubtask(c)'
    BY <1>5, <1>6, <2>1, EmptyTxnFields DEF Control, ControlOfSubtask
  <2> QED BY <1>1, <1>2, <1>3, <1>4, <2>2, <2>3, StepOfSubtask DEF Types, loop
<1>8. CASE ~ Panic(c)
  <2>1. /\ pc'[c] = "refresh" /\ refreshing'[c] = <<version>> /\ targets'[c] = {}
        /\ txn'[c].dropped = txn[c].dropped
    BY <1>3, <1>8, Constants DEF Control, ControlOfTask
  <2>2. ControlOfTask(c)'
    BY <2>1, Constants DEF ControlOfTask
  <2>3. ControlOfSubtask(c)'
    BY <1>5, <1>6, <2>1 DEF Control, ControlOfSubtask
  <2> QED BY <1>1, <1>2, <1>3, <1>4, <2>2, <2>3, StepOfSubtask DEF Types, loop
<1> QED BY <1>7, <1>8

LEMMA DeferredFields ==
    ASSUME LoopTypes
    PROVE  /\ DOMAIN deferred = 1..Len(deferred)
           /\ \A i \in DOMAIN deferred :
                 deferred[i].state \in TypedViews /\ deferred[i].event \in Events
<1> DEFINE Mutations == [state : TypedViews, event : Events]
<1>1. deferred \in Seq(Mutations)
  BY DEF LoopTypes
<1>2. \A m \in Mutations : m.state \in TypedViews /\ m.event \in Events
  OBVIOUS
<1> HIDE DEF Mutations
<1>3. DOMAIN deferred = 1..Len(deferred) /\ \A i \in 1..Len(deferred) : deferred[i] \in Mutations
  BY <1>1
<1> QED BY <1>2, <1>3

LEMMA ViewsInUseTyped ==
    ASSUME Types
    PROVE  ViewsInUse \in SUBSET TypedViews
<1>1. \A t \in Tasks : ToSet(refreshing[t]) \subseteq TypedVersions
  BY TxnFields DEF Types, ToSet
<1>2. {v.view : v \in versions \cup UNION {txn[t].appended \cup ToSet(refreshing[t]) : t \in Tasks}}
        \subseteq TypedViews
  BY <1>1, TxnFields, VersionFields DEF Types, TableTypes
<1>3. views \cup UNION {txn[t].inserted : t \in Tasks} \subseteq TypedViews
  BY TxnFields DEF Types, TableTypes
<1>4. {deferred[i].state : i \in DOMAIN deferred} \subseteq TypedViews
  BY DeferredFields DEF Types
<1>5. {held[c] : c \in {d \in ChainIds : held[d] # None}} \subseteq TypedViews
  BY DEF Types, SubtaskTypes
<1> DEFINE ofVersions == {v.view : v \in versions \cup
                             UNION {txn[t].appended \cup ToSet(refreshing[t]) : t \in Tasks}}
           inserted == UNION {txn[t].inserted : t \in Tasks}
           ofDeferred == {deferred[i].state : i \in DOMAIN deferred}
           ofSubtasks == {held[c] : c \in {d \in ChainIds : held[d] # None}}
<1>6. ViewsInUse = ofVersions \cup views \cup inserted \cup ofDeferred \cup ofSubtasks
  BY DEF ViewsInUse
<1> HIDE DEF ofVersions, inserted, ofDeferred, ofSubtasks
<1>7. /\ ofVersions \subseteq TypedViews /\ views \cup inserted \subseteq TypedViews
      /\ ofDeferred \subseteq TypedViews /\ ofSubtasks \subseteq TypedViews
  BY <1>2, <1>3, <1>4, <1>5 DEF ofVersions, inserted, ofDeferred, ofSubtasks
<1> QED BY <1>6, <1>7

LEMMA NewGroupIsFresh ==
    ASSUME Types, InUse
    PROVE  NewGroup \in Nat /\ NewGroup \notin GroupsInUse
<1>1. \A v \in ViewsInUse : v.group \in Nat
  BY ViewsInUseTyped, ViewFields
<1> QED BY <1>1, FreshGroup DEF Types, LoopTypes

\* The event at hand, while there is one.
LEMMA EventAtHand ==
    ASSUME Types, Control, NEW c \in ChainIds, at[c] <= Len(batch[c])
    PROVE  /\ event(c) \in Events /\ event(c).row.chain_id = c
           /\ at[c] \in 1..Len(batch[c]) /\ event(c) = batch[c][at[c]]
<1>1. at[c] \in 1..Len(batch[c])
  BY DEF Types, SubtaskTypes
<1> QED BY <1>1 DEF Types, SubtaskTypes, Control, ControlOfSubtask, event

LEMMA ReadOneTypes ==
    ASSUME Types, Control, InUse, NEW c \in ChainIds, ReadOne(c)
    PROVE  Types' /\ Control'
<1> DEFINE found == ReadMany(c, event(c))
<1>1. /\ pc[c] = "handle" /\ at[c] <= Len(batch[c])
      /\ UNCHANGED <<ingester, crashes, tables, streamed, batch, deferred, loop>>
  BY DEF ReadOne
<1>2. event(c) \in Events
  BY <1>1, EventAtHand
<1>3. held[c] = None
  BY <1>1 DEF Control, ControlOfSubtask
<1>4. c \in Tasks /\ c # Loop
  BY Constants
<1>5. TableTypes' /\ LoopTypes'
  BY <1>1 DEF ingester, tables, loop, Types, TableTypes, LoopTypes
<1>6. UNCHANGED <<deferred, groups>> /\ batch'[c] = batch[c] /\ streamed'[c] = streamed[c]
  BY <1>1 DEF loop
<1>7. ControlOfTask(c) /\ ControlOfSubtask(c)
  BY <1>4 DEF Control
<1>8. CASE /\ \E state \in found : held' = Put(held, c, state)
           /\ pc' = Put(pc, c, "mutate")
           /\ UNCHANGED <<execution, at>>
  <2>1. PICK state \in found : held' = Put(held, c, state)
    BY <1>8
  <2>2. /\ state \in TypedViews /\ state # None
        /\ state.table = event(c).table /\ state.key = event(c).key
    BY <2>1, <1>4, VisibleTyped, ViewFields DEF ReadMany, Types
  <2>3. SubtaskTypes' /\ ExecutionTypes'
    BY <1>1, <1>8, <2>1, <2>2 DEF Put, Types, SubtaskTypes, ExecutionTypes, execution, PcValues
  <2>4. /\ held'[c] = state /\ pc'[c] = "mutate" /\ at'[c] = at[c]
        /\ txn'[c] = txn[c] /\ targets'[c] = targets[c] /\ refreshing'[c] = refreshing[c]
    BY <1>4, <1>8, <2>1 DEF Put, Types, SubtaskTypes, ExecutionTypes, execution
  <2>5. ControlOfTask(c)'
    BY <1>1, <1>4, <1>7, <2>4 DEF ControlOfTask
  <2>6. event(c)' = event(c)
    BY <1>6, <2>4 DEF event
  <2>7. ControlOfSubtask(c)'
    BY <1>1, <1>6, <1>7, <2>2, <2>4, <2>6 DEF ControlOfSubtask
  <2>8. \A u \in Tasks \ {c} : IsKept(u)
    BY <1>8 DEF Put, Types, ExecutionTypes, execution, IsKept
  <2>9. \A d \in ChainIds \ {c} : IsKeptSubtask(d)
    BY <1>1, <1>8, <2>1 DEF Put, Types, SubtaskTypes, IsKeptSubtask
  <2> QED BY <1>5, <1>6, <2>3, <2>5, <2>7, <2>8, <2>9, StepOfSubtask DEF Types
<1>9. CASE /\ AppendVersion(c, CreatedVersion(event(c)))
           /\ at' = Put(at, c, at[c] + 1)
           /\ UNCHANGED held
  <2>1. CreatedVersion(event(c)) \in TypedVersions
    BY <1>2, NewGroupIsFresh, CreatedVersionOfEvent
  <2>2. held'[c] = None /\ held' = held
    BY <1>3, <1>9
  <2> QED BY <1>1, <1>9, <2>1, <2>2, AppendTypes
<1>10. CASE /\ at' = Put(at, c, at[c] + 1)
            /\ UNCHANGED <<held, execution, pc>>
  <2>1. /\ at'[c] = at[c] + 1 /\ at[c] + 1 \in Nat \ {0} /\ held'[c] = None
        /\ at[c] + 1 <= Len(batch[c]) + 1
    BY <1>1, <1>3, <1>10 DEF Put, Types, SubtaskTypes
  <2>2. SubtaskTypes' /\ ExecutionTypes'
    BY <1>1, <1>10, <2>1 DEF Put, Types, SubtaskTypes, ExecutionTypes, execution
  <2>3. \A u \in Tasks : IsKept(u)
    BY <1>10 DEF execution, IsKept
  <2>4. ControlOfTask(c)'
    BY <1>4, <1>7, <2>3, TaskControlKept
  <2>5. ControlOfSubtask(c)'
    BY <1>1, <1>6, <1>7, <1>10, <2>1 DEF ControlOfSubtask, execution
  <2>6. \A d \in ChainIds \ {c} : IsKeptSubtask(d)
    BY <1>1, <1>10 DEF Put, Types, SubtaskTypes, IsKeptSubtask
  <2> QED BY <1>5, <1>6, <2>2, <2>3, <2>4, <2>5, <2>6, StepOfSubtask DEF Types
<1> QED BY <1>8, <1>9, <1>10 DEF ReadOne

LEMMA MutateTypes ==
    ASSUME Types, Control, NEW c \in ChainIds, Mutate(c)
    PROVE  Types' /\ Control'
<1> DEFINE complete == Complete(c, held[c], event(c))
<1>1. /\ pc[c] = "mutate"
      /\ UNCHANGED <<ingester, crashes, tables, streamed, batch, deferred, loop>>
  BY DEF Mutate
<1>2. c \in Tasks /\ c # Loop
  BY Constants
<1>3. ControlOfTask(c) /\ ControlOfSubtask(c)
  BY <1>2 DEF Control
<1>4. /\ at[c] <= Len(batch[c]) /\ event(c) \in Events
      /\ held[c].table = event(c).table /\ held[c].key = event(c).key
  BY <1>1, <1>3, EventAtHand DEF ControlOfSubtask
<1>5. complete \in SUBSET TypedViews
  BY <1>2, VisibleTyped DEF Complete, Types
<1>6. CASE Panic(c) /\ UNCHANGED <<at, held>>
  <2>1. UNCHANGED <<ingester, tables, subtasks, deferred, earliest, groups>> /\ backtracking' = backtracking
    BY <1>1, <1>6 DEF subtasks, loop
  <2> QED BY <1>2, <1>6, <2>1, PanicTypes
<1>7. CASE /\ \E state \in complete : AppendVersion(c, NextVersion(state, event(c)))
           /\ at' = Put(at, c, at[c] + 1)
           /\ held' = Put(held, c, None)
  <2>1. PICK state \in complete : AppendVersion(c, NextVersion(state, event(c)))
    BY <1>7
  <2>2. NextVersion(state, event(c)) \in TypedVersions
    BY <1>4, <1>5, <2>1, NextVersionOfState
  <2>3. held'[c] = None
    BY <1>7 DEF Put, Types, SubtaskTypes
  <2> QED BY <1>1, <1>4, <1>7, <2>1, <2>2, <2>3, AppendTypes
<1>8. CASE /\ KindOf[event(c).table] = "MultiChainState"
           /\ \E state \in complete : held' = Put(held, c, state)
           /\ pc' = Put(pc, c, "defer")
           /\ UNCHANGED <<execution, at>>
  <2>1. PICK state \in complete : held' = Put(held, c, state)
    BY <1>8
  <2>2. /\ state \in TypedViews /\ state # None
        /\ state.table = event(c).table /\ state.key = event(c).key
    BY <1>4, <1>5, <2>1, ViewFields DEF Complete
  <2>3. SubtaskTypes' /\ ExecutionTypes'
    BY <1>1, <1>8, <2>1, <2>2 DEF Put, Types, SubtaskTypes, ExecutionTypes, execution, PcValues
  <2>4. /\ held'[c] = state /\ pc'[c] = "defer" /\ at'[c] = at[c]
        /\ batch'[c] = batch[c] /\ streamed'[c] = streamed[c]
        /\ txn'[c] = txn[c] /\ targets'[c] = targets[c] /\ refreshing'[c] = refreshing[c]
    BY <1>1, <1>2, <1>8, <2>1 DEF Put, Types, SubtaskTypes, ExecutionTypes, execution
  <2>5. ControlOfTask(c)'
    BY <1>1, <1>2, <1>3, <2>4 DEF ControlOfTask
  <2>6. event(c)' = event(c)
    BY <2>4 DEF event
  <2>7. ControlOfSubtask(c)'
    BY <1>1, <1>3, <1>4, <1>8, <2>2, <2>4, <2>6 DEF ControlOfSubtask
  <2>8. \A u \in Tasks \ {c} : IsKept(u)
    BY <1>8 DEF Put, Types, ExecutionTypes, execution, IsKept
  <2>9. \A d \in ChainIds \ {c} : IsKeptSubtask(d)
    BY <1>1, <1>8, <2>1 DEF Put, Types, SubtaskTypes, IsKeptSubtask
  <2>10. TableTypes' /\ LoopTypes' /\ UNCHANGED <<deferred, groups>>
    BY <1>1 DEF ingester, tables, loop, Types, TableTypes, LoopTypes
  <2> QED BY <2>3, <2>5, <2>7, <2>8, <2>9, <2>10, StepOfSubtask DEF Types
<1> QED BY <1>6, <1>7, <1>8 DEF Mutate

LEMMA AddDeferredTypes ==
    ASSUME Types, Control, NEW c \in ChainIds, AddDeferred(c)
    PROVE  Types' /\ Control'
<1> DEFINE mutation == [state |-> held[c], event |-> event(c)]
<1>1. /\ pc[c] = "defer" /\ ~ IsConsuming
      /\ deferred' = Append(deferred, mutation)
      /\ at' = Put(at, c, at[c] + 1) /\ held' = Put(held, c, None) /\ pc' = Put(pc, c, "handle")
      /\ UNCHANGED <<ingester, crashes, tables, execution, streamed, batch, loop>>
  BY DEF AddDeferred
<1>2. c \in Tasks /\ c # Loop
  BY Constants
<1>3. ControlOfTask(c) /\ ControlOfSubtask(c) /\ ControlOfLoop
  BY <1>2 DEF Control
<1>4. /\ at[c] <= Len(batch[c]) /\ event(c) \in Events /\ held[c] \in TypedViews
      /\ held[c].table = event(c).table /\ held[c].key = event(c).key
      /\ KindOf[event(c).table] = "MultiChainState"
  BY <1>1, <1>3, EventAtHand DEF ControlOfSubtask, Types, SubtaskTypes
<1>5. mutation \in [state : TypedViews, event : Events] /\ mutation.state = held[c] /\ mutation.event = event(c)
  BY <1>4
<1> DEFINE Mutations == [state : TypedViews, event : Events]
<1>6. deferred \in Seq(Mutations) /\ mutation \in Mutations
  BY <1>5 DEF Types, LoopTypes
<1> HIDE DEF mutation, Mutations
<1>7. /\ deferred' \in Seq(Mutations) /\ Len(deferred') = Len(deferred) + 1
      /\ \A i \in 1..Len(deferred') :
            \/ i \in 1..Len(deferred) /\ deferred'[i] = deferred[i]
            \/ deferred'[i] = mutation
  BY <1>1, <1>6
<1>8. TableTypes' /\ LoopTypes'
  BY <1>1, <1>7 DEF ingester, tables, loop, Types, TableTypes, LoopTypes, Mutations
<1>9. at[c] + 1 \in Nat \ {0} /\ at[c] + 1 <= Len(batch[c]) + 1
  BY <1>4 DEF Types, SubtaskTypes
<1>10. SubtaskTypes' /\ ExecutionTypes'
  BY <1>1, <1>9 DEF Put, Types, SubtaskTypes, ExecutionTypes, execution, PcValues
<1>11. /\ held'[c] = None /\ pc'[c] = "handle" /\ at'[c] = at[c] + 1
       /\ batch'[c] = batch[c] /\ streamed'[c] = streamed[c]
       /\ txn'[c] = txn[c] /\ targets'[c] = targets[c] /\ refreshing'[c] = refreshing[c]
  BY <1>1, <1>2 DEF Put, Types, SubtaskTypes, ExecutionTypes, execution
<1>12. ControlOfTask(c)'
  BY <1>1, <1>2, <1>3, <1>11 DEF ControlOfTask
<1>13. ControlOfSubtask(c)'
  BY <1>1, <1>3, <1>9, <1>11 DEF ControlOfSubtask
<1>14. \A u \in Tasks \ {c} : IsKept(u)
  BY <1>1 DEF Put, Types, ExecutionTypes, execution, IsKept
<1>15. \A d \in ChainIds \ {c} : IsKeptSubtask(d)
  BY <1>1 DEF Put, Types, SubtaskTypes, IsKeptSubtask
<1>16. ControlOfLoop'
  <2>1. \A i \in 1..Len(deferred') :
          /\ KindOf[deferred'[i].event.table] = "MultiChainState"
          /\ deferred'[i].state.table = deferred'[i].event.table
          /\ deferred'[i].state.key = deferred'[i].event.key
    BY <1>3, <1>4, <1>5, <1>7 DEF ControlOfLoop
  <2>2. pc'[Loop] = pc[Loop] /\ txn'[Loop] = txn[Loop] /\ groups' = groups
    BY <1>1, <1>2, <1>14, Constants DEF IsKept, loop
  <2>3. deferred' # <<>>
    BY <1>6, <1>7, EmptyByLength
  <2> QED BY <1>3, <2>1, <2>2, <2>3 DEF ControlOfLoop
<1>17. \A t \in Tasks : ControlOfTask(t)'
  BY <1>12, <1>14, TaskControlKept DEF Control
<1>18. \A d \in ChainIds : ControlOfSubtask(d)'
  BY <1>13, <1>14, <1>15, SubtaskControlKept, Constants DEF Control
<1> QED BY <1>8, <1>10, <1>16, <1>17, <1>18 DEF Types, Control

LEMMA CommitTransactionTypes ==
    ASSUME Types, Control, NEW c \in ChainIds, CommitTransaction(c)
    PROVE  Types' /\ Control'
<1>1. /\ pc[c] = "handle" /\ at[c] > Len(batch[c]) /\ Commit(c) /\ pc' = Put(pc, c, "stream")
      /\ next_block_number_to_handle_from' =
            IF batch[c] = <<>> THEN next_block_number_to_handle_from
            ELSE Put(next_block_number_to_handle_from, Last(batch[c]).row, CursorAfter(c))
      /\ batch' = Put(batch, c, <<>>) /\ at' = Put(at, c, 1)
      /\ UNCHANGED <<ingester, crashes, handled_reorged_blocks, refreshing, streamed, held,
                     deferred, loop>>
  BY DEF CommitTransaction
<1>2. c \in Tasks /\ c # Loop /\ "stream" \in PcValues
  BY Constants DEF PcValues
<1>3. ControlOfTask(c) /\ ControlOfSubtask(c)
  BY <1>2 DEF Control
<1>4. /\ ExecutionTypes'
      /\ versions' \in SUBSET TypedVersions /\ views' \in SUBSET TypedViews
      /\ \A u \in Tasks \ {c} : IsKept(u)
      /\ pc'[c] = "stream" /\ txn'[c] = EmptyTxn /\ targets'[c] \subseteq targets[c]
  BY <1>1, <1>2, CommitEffect DEF Types
<1>5. next_block_number_to_handle_from' \in [ContractAddresses -> Nat]
  <2>1. CASE batch[c] = <<>>
    BY <1>1, <2>1 DEF Types, TableTypes
  <2>2. CASE batch[c] # <<>>
    <3>1. Last(batch[c]) \in Events
      <4>1. batch[c] \in Seq(Events) /\ Len(batch[c]) \in 1..Len(batch[c])
        BY <2>2, EmptyByLength DEF Types, SubtaskTypes
      <4> QED BY <4>1 DEF Last
    <3>2. Last(batch[c]).row \in ContractAddresses /\ CursorAfter(c) \in Nat
      BY <3>1, Constants DEF CursorAfter
    <3> QED BY <1>1, <2>2, <3>2 DEF Put, Types, TableTypes
  <2> QED BY <2>1, <2>2
<1>6. TableTypes' /\ LoopTypes'
  BY <1>1, <1>4, <1>5 DEF ingester, loop, Types, TableTypes, LoopTypes
<1>7. SubtaskTypes'
  BY <1>1 DEF Put, Types, SubtaskTypes
<1>8. batch'[c] = <<>> /\ at'[c] = 1 /\ streamed'[c] = streamed[c] /\ held'[c] = held[c] /\ held[c] = None
  BY <1>1, <1>3 DEF Put, Types, SubtaskTypes, ControlOfSubtask
<1>9. ControlOfTask(c)'
  BY <1>1, <1>2, <1>3, <1>4 DEF ControlOfTask
<1>10. ControlOfSubtask(c)'
  BY <1>1, <1>3, <1>4, <1>8, EmptyTxnFields DEF ControlOfSubtask
<1>11. \A d \in ChainIds \ {c} : IsKeptSubtask(d)
  BY <1>1 DEF Put, Types, SubtaskTypes, IsKeptSubtask
<1>12. UNCHANGED <<deferred, groups>>
  BY <1>1 DEF loop
<1> QED BY <1>4, <1>6, <1>7, <1>9, <1>10, <1>11, <1>12, StepOfSubtask DEF Types

LEMMA SubtaskStepTypes ==
    ASSUME Types, Control, InUse, NEW c \in ChainIds, HandleEvents(c)
    PROVE  Types' /\ Control'
BY StreamTypes, BeginTypes, ReadOneTypes, MutateTypes, AddDeferredTypes, RefreshTypes,
   CommitTransactionTypes, Constants DEF HandleEvents

\* A choice of one version per group is finite, and so is the order it is refreshed in.
LEMMA OrderedVersions ==
    ASSUME Types, InUse, NEW latest \in SUBSET VisibleVersions(Loop),
           \A v, w \in latest : v.view.group = w.view.group => v = w,
           NEW order \in SetToSeqs(latest)
    PROVE  /\ IsFiniteSet(latest) /\ order \in Seq(latest) /\ Len(order) = Cardinality(latest)
           /\ ToSet(order) \subseteq latest
           /\ order = <<>> <=> latest = {}
<1> DEFINE f == [v \in ViewsInUse |-> CHOOSE w \in latest : w.view.group = v.group]
<1>1. IsFiniteSet({f[v] : v \in ViewsInUse})
  <2>1. IsFiniteSet(ViewsInUse) /\ DOMAIN f = ViewsInUse
    BY DEF InUse
  <2> HIDE DEF f
  <2> QED BY <2>1, FiniteImage
<1>2. latest \subseteq {f[v] : v \in ViewsInUse}
  <2>1. ASSUME NEW w \in latest  PROVE \E v \in ViewsInUse : f[v] = w
    <3>1. w \in versions \cup txn[Loop].appended
      BY DEF VisibleVersions
    <3>2. w.view \in ViewsInUse
      BY <3>1, Constants DEF ViewsInUse
    <3>3. f[w.view] = w
      BY <3>2
    <3> QED BY <3>2, <3>3
  <2> HIDE DEF f
  <2> QED BY <2>1
<1>3. IsFiniteSet(latest)
  <2> HIDE DEF f
  <2> QED BY <1>1, <1>2, FS_Subset
<1>4. order \in [1..Cardinality(latest) -> latest] /\ Cardinality(latest) \in Nat
  BY <1>3, FS_CardinalityType DEF SetToSeqs
<1>5. order \in Seq(latest) /\ Len(order) = Cardinality(latest)
  BY <1>4
<1>6. ToSet(order) \subseteq latest
  BY <1>4 DEF ToSet
<1>7. order = <<>> <=> latest = {}
  BY <1>3, <1>5, EmptyByLength, FS_EmptySet
<1> QED BY <1>3, <1>5, <1>6, <1>7

LEMMA LoadReorgedBlocksTypes ==
    ASSUME Types, Control, LoadReorgedBlocks
    PROVE  Types' /\ Control'
<1>1. /\ pc[Loop] = "load"
      /\ UNCHANGED <<ingester, crashes, tables, execution, subtasks, deferred>>
  BY DEF LoadReorgedBlocks
<1>2. \/ pc' = Put(pc, Loop, "consume") /\ UNCHANGED loop
      \/ /\ earliest' \in OnlyEarliestPerChain(UnhandledReorgedBlocks)
         /\ backtracking' = earliest' \X StateTables
         /\ pc' = Put(pc, Loop, "backtrack") /\ groups' = groups
  BY DEF LoadReorgedBlocks
<1>3. TableTypes' /\ SubtaskTypes'
  BY <1>1 DEF ingester, tables, subtasks, Types, TableTypes, SubtaskTypes
<1>4. LoopTypes'
  <2>1. OnlyEarliestPerChain(UnhandledReorgedBlocks) \subseteq SUBSET ReorgRows
    BY DEF OnlyEarliestPerChain, UnhandledReorgedBlocks, Types, TableTypes
  <2> QED BY <1>1, <1>2, <2>1 DEF loop, Types, LoopTypes
<1>5. /\ pc'[Loop] \in {"consume", "backtrack"} /\ txn'[Loop] = txn[Loop]
      /\ targets'[Loop] = targets[Loop] /\ refreshing'[Loop] = refreshing[Loop]
      /\ deferred' = deferred /\ groups' = groups
  BY <1>1, <1>2, Constants DEF Put, Types, ExecutionTypes, execution, loop
<1>6. ExecutionTypes'
  BY <1>1, <1>2 DEF Put, Types, ExecutionTypes, PcValues, execution
<1>7. \A u \in Tasks \ {Loop} : IsKept(u)
  BY <1>1, <1>2 DEF Put, Types, ExecutionTypes, execution, IsKept
<1>8. ControlOfTask(Loop) /\ ControlOfLoop
  BY Constants DEF Control
<1>9. ControlOfTask(Loop)' /\ ControlOfLoop'
  BY <1>1, <1>5, <1>8 DEF ControlOfTask, ControlOfLoop
<1> QED BY <1>1, <1>3, <1>4, <1>6, <1>7, <1>9, StepOfLoop DEF Types

LEMMA BacktrackStatesTypes ==
    ASSUME Types, Control, BacktrackStates
    PROVE  Types' /\ Control'
<1>1. PICK job \in backtracking :
        LET found == {v \in VersionsFrom(job[1].chain_id, job[1].block_number) : v.view.table = job[2]}
        IN  /\ backtracking' = backtracking \ {job}
            /\ \/ Panic(Loop) /\ UNCHANGED groups
               \/ /\ txn' = [txn EXCEPT ![Loop].dropped = @ \cup found]
                  /\ groups' = {v.view.group : v \in found}
                  /\ pc' = Put(pc, Loop, "latest")
                  /\ UNCHANGED <<targets, refreshing>>
  BY DEF BacktrackStates
<1> DEFINE found == {v \in VersionsFrom(job[1].chain_id, job[1].block_number) : v.view.table = job[2]}
<1>2. pc[Loop] = "backtrack" /\ UNCHANGED <<ingester, crashes, tables, subtasks, deferred, earliest>>
  BY DEF BacktrackStates
<1>3. CASE Panic(Loop) /\ UNCHANGED groups
  BY <1>1, <1>2, <1>3, PanicTypes, Constants
<1>4. CASE /\ txn' = [txn EXCEPT ![Loop].dropped = @ \cup found]
           /\ groups' = {v.view.group : v \in found}
           /\ pc' = Put(pc, Loop, "latest")
           /\ UNCHANGED <<targets, refreshing>>
  <2>1. found \in SUBSET TypedVersions
    BY VisibleTyped, Constants DEF VersionsFrom, Types
  <2>2. groups' \in SUBSET Nat
    BY <1>4, <2>1, VersionFields, ViewFields
  <2> HIDE DEF found
  <2>3. TableTypes' /\ SubtaskTypes' /\ LoopTypes'
    BY <1>1, <1>2, <2>2 DEF ingester, tables, subtasks, Types, TableTypes, SubtaskTypes, LoopTypes
  <2>4. txn' \in [Tasks -> Txns]
    BY <1>4, <2>1 DEF Types, ExecutionTypes, Txns
  <2>5. txn'[Loop].appended = txn[Loop].appended
    BY <1>4, Constants DEF Types, ExecutionTypes, Txns
  <2>6. ExecutionTypes'
    BY <1>4, <2>4 DEF Put, Types, ExecutionTypes, PcValues
  <2>7. /\ pc'[Loop] = "latest" /\ targets'[Loop] = targets[Loop]
        /\ refreshing'[Loop] = refreshing[Loop]
    BY <1>4, Constants DEF Put, Types, ExecutionTypes
  <2>8. \A u \in Tasks \ {Loop} : txn'[u] = txn[u]
    BY <1>4 DEF Types, ExecutionTypes
  <2>9. \A u \in Tasks \ {Loop} : IsKept(u)
    BY <1>4, <2>8 DEF Put, Types, ExecutionTypes, IsKept
  <2>10. ControlOfTask(Loop) /\ ControlOfLoop
    BY Constants DEF Control
  <2>11. ControlOfTask(Loop)' /\ ControlOfLoop'
    BY <1>2, <2>5, <2>7, <2>10 DEF ControlOfTask, ControlOfLoop
  <2> QED BY <1>2, <2>3, <2>6, <2>9, <2>11, StepOfLoop DEF Types
<1> QED BY <1>1, <1>3, <1>4

LEMMA GetLatestVersionsTypes ==
    ASSUME Types, Control, InUse, GetLatestVersions
    PROVE  Types' /\ Control'
<1>1. PICK latest \in SUBSET {v \in VisibleVersions(Loop) : IsLatest(v)} :
        /\ \A v, w \in latest : v.view.group = w.view.group => v = w
        /\ \E order \in SetToSeqs(latest) : refreshing' = Put(refreshing, Loop, order)
        /\ pc' = Put(pc, Loop, IF latest = {} THEN "backtrack" ELSE "refresh")
  BY DEF GetLatestVersions
<1>2. PICK order \in SetToSeqs(latest) : refreshing' = Put(refreshing, Loop, order)
  BY <1>1
<1>3. /\ pc[Loop] = "latest" /\ groups' = {}
      /\ UNCHANGED <<ingester, crashes, tables, txn, targets, subtasks, deferred, earliest,
                     backtracking>>
  BY DEF GetLatestVersions
<1>4. latest \in SUBSET VisibleVersions(Loop) /\ latest \in SUBSET TypedVersions
  BY VisibleTyped, Constants DEF Types
<1>5. order \in Seq(TypedVersions) /\ (order = <<>> <=> latest = {})
  <2>1. order \in Seq(latest) /\ (order = <<>> <=> latest = {})
    BY <1>1, <1>2, <1>4, OrderedVersions
  <2> QED BY <1>4, <2>1
<1>6. TableTypes' /\ SubtaskTypes' /\ LoopTypes'
  BY <1>3 DEF ingester, tables, subtasks, Types, TableTypes, SubtaskTypes, LoopTypes
<1>7. ExecutionTypes'
  BY <1>1, <1>2, <1>3, <1>5 DEF Put, Types, ExecutionTypes, PcValues
<1>8. /\ pc'[Loop] = IF latest = {} THEN "backtrack" ELSE "refresh"
      /\ refreshing'[Loop] = order /\ txn'[Loop] = txn[Loop] /\ targets'[Loop] = targets[Loop]
  BY <1>1, <1>2, <1>3, Constants DEF Put, Types, ExecutionTypes
<1>9. \A u \in Tasks \ {Loop} : IsKept(u)
  BY <1>1, <1>2, <1>3 DEF Put, Types, ExecutionTypes, IsKept
<1>10. ControlOfTask(Loop) /\ ControlOfLoop
  BY Constants DEF Control
<1>11. ControlOfTask(Loop)' /\ ControlOfLoop'
  BY <1>3, <1>5, <1>8, <1>10 DEF ControlOfTask, ControlOfLoop
<1> QED BY <1>3, <1>6, <1>7, <1>9, <1>11, StepOfLoop DEF Types

LEMMA CommitReorgTypes ==
    ASSUME Types, Control, CommitReorg
    PROVE  Types' /\ Control'
<1>1. /\ pc[Loop] = "backtrack" /\ Commit(Loop) /\ pc' = Put(pc, Loop, "consume")
      /\ next_block_number_to_handle_from' =
            [r \in ContractAddresses |->
                IF \E b \in earliest : b.chain_id = r.chain_id
                THEN (CHOOSE b \in earliest : b.chain_id = r.chain_id).block_number
                ELSE next_block_number_to_handle_from[r]]
      /\ earliest' = {} /\ backtracking = {}
      /\ UNCHANGED <<ingester, crashes, refreshing, subtasks, deferred, backtracking, groups>>
  BY DEF CommitReorg
<1>2. /\ ExecutionTypes'
      /\ versions' \in SUBSET TypedVersions /\ views' \in SUBSET TypedViews
      /\ \A u \in Tasks \ {Loop} : IsKept(u)
      /\ pc'[Loop] = "consume" /\ txn'[Loop] = EmptyTxn /\ targets'[Loop] \subseteq targets[Loop]
  BY <1>1, CommitEffect, Constants DEF Types, PcValues
<1>3. next_block_number_to_handle_from' \in [ContractAddresses -> Nat]
  <2>1. ASSUME NEW r \in ContractAddresses, \E b \in earliest : b.chain_id = r.chain_id
        PROVE  (CHOOSE b \in earliest : b.chain_id = r.chain_id).block_number \in Nat
    <3>1. (CHOOSE b \in earliest : b.chain_id = r.chain_id) \in earliest
      BY <2>1
    <3> QED BY <3>1, Constants DEF Types, LoopTypes, ReorgRows
  <2> QED BY <1>1, <2>1 DEF Types, TableTypes
<1>4. TableTypes' /\ SubtaskTypes' /\ LoopTypes'
  BY <1>1, <1>2, <1>3 DEF ingester, subtasks, Types, TableTypes, SubtaskTypes, LoopTypes
<1>5. ControlOfTask(Loop) /\ ControlOfLoop
  BY Constants DEF Control
<1>6. ControlOfTask(Loop)' /\ ControlOfLoop'
  BY <1>1, <1>2, <1>5, EmptyTxnFields DEF ControlOfTask, ControlOfLoop
<1> QED BY <1>1, <1>2, <1>4, <1>6, StepOfLoop DEF Types

LEMMA MutationFields ==
    ASSUME Types, Control, deferred # <<>>
    PROVE  /\ Mutation.state \in TypedViews /\ Mutation.event \in Events
           /\ DeferredVersion \in TypedVersions
           /\ 1 \in DOMAIN deferred /\ Mutation = deferred[1]
           /\ Remaining \in Seq([state : TypedViews, event : Events])
           /\ Len(Remaining) = Len(deferred) - 1
           /\ \A i \in 1..Len(Remaining) : i + 1 \in 1..Len(deferred) /\ Remaining[i] = deferred[i + 1]
           /\ KindOf[Mutation.event.table] = "MultiChainState"
           /\ Mutation.state.table = Mutation.event.table
           /\ Mutation.state.key = Mutation.event.key
<1> DEFINE Mutations == [state : TypedViews, event : Events]
<1>1. deferred \in Seq(Mutations)
  BY DEF Types, LoopTypes
<1> HIDE DEF Mutations
<1>2. /\ 1 \in 1..Len(deferred) /\ Mutation = deferred[1]
      /\ Remaining \in Seq(Mutations) /\ Len(Remaining) = Len(deferred) - 1
      /\ \A i \in 1..Len(Remaining) : i + 1 \in 1..Len(deferred) /\ Remaining[i] = deferred[i + 1]
  BY <1>1, HeadTailProperties, EmptyByLength DEF Mutation, Remaining
<1>3. 1 \in DOMAIN deferred
  BY <1>1, <1>2
<1>4. Mutation.state \in TypedViews /\ Mutation.event \in Events
  BY <1>2, <1>3, DeferredFields DEF Types
<1>5. DeferredVersion \in TypedVersions
  BY <1>4, NextVersionOfState DEF DeferredVersion
<1> QED BY <1>2, <1>3, <1>4, <1>5 DEF Control, ControlOfLoop, Mutations

LEMMA ConsumeTypes ==
    ASSUME Types, Control, ConsumeDeferred \/ DeleteWithoutTxn \/ CreateWithoutTxn \/ EndRound
    PROVE  Types' /\ Control'
<1>1. /\ pc[Loop] \in {"consume", "delete", "insert"}
      /\ UNCHANGED <<ingester, crashes, handled_reorged_blocks, next_block_number_to_handle_from,
                     subtasks, loop>>
  BY DEF ConsumeDeferred, DeleteWithoutTxn, CreateWithoutTxn, EndRound, tables
<1>2. deferred # <<>> \/ EndRound
  BY DEF ConsumeDeferred, HasDeferred, DeleteWithoutTxn, CreateWithoutTxn, Control, ControlOfLoop
<1>3. CASE Panic(Loop) /\ UNCHANGED <<versions, views, deferred>>
  <2>1. UNCHANGED <<ingester, tables, subtasks, deferred, earliest, groups>> /\ backtracking' = backtracking
    BY <1>1, <1>3 DEF tables, loop
  <2> QED BY <1>3, <2>1, PanicTypes, Constants
<1>4. CASE ~ (Panic(Loop) /\ UNCHANGED <<versions, views, deferred>>)
  <2>1. /\ \/ versions' = versions
           \/ deferred # <<>> /\ versions' = versions \cup {DeferredVersion}
        /\ \/ views' \subseteq views
           \/ deferred # <<>> /\ views' = views \cup NewViews(DeferredVersion)
        /\ \/ deferred' = deferred
           \/ deferred # <<>> /\ deferred' = Remaining
        /\ UNCHANGED execution
        /\ \E p \in {"consume", "delete", "insert", "load"} :
              /\ pc' = Put(pc, Loop, p)
              /\ p \in {"delete", "insert"} => deferred # <<>> /\ deferred' = deferred
    BY <1>1, <1>2, <1>4 DEF ConsumeDeferred, DeleteWithoutTxn, CreateWithoutTxn, EndRound, tables
  <2>2. versions' \in SUBSET TypedVersions
    BY <2>1, MutationFields DEF Types, TableTypes
  <2>3. views' \in SUBSET TypedViews
    BY <2>1, MutationFields, NewViewsOfVersion DEF Types, TableTypes
  <2>4. deferred' \in Seq([state : TypedViews, event : Events])
    BY <2>1, MutationFields DEF Types, LoopTypes
  <2>5. TableTypes' /\ SubtaskTypes' /\ LoopTypes'
    BY <1>1, <2>2, <2>3, <2>4 DEF ingester, subtasks, loop, Types, TableTypes, SubtaskTypes, LoopTypes
  <2>6. /\ txn'[Loop] = txn[Loop] /\ targets'[Loop] = targets[Loop]
        /\ refreshing'[Loop] = refreshing[Loop]
        /\ pc'[Loop] \in {"consume", "delete", "insert", "load"}
        /\ pc'[Loop] \in {"delete", "insert"} => deferred # <<>> /\ deferred' = deferred
    BY <2>1, Constants DEF Put, Types, ExecutionTypes, execution
  <2>7. ExecutionTypes'
    BY <2>1 DEF Put, Types, ExecutionTypes, PcValues, execution
  <2>8. \A u \in Tasks \ {Loop} : IsKept(u)
    BY <2>1 DEF Put, Types, ExecutionTypes, execution, IsKept
  <2>9. ControlOfTask(Loop) /\ ControlOfLoop
    BY Constants DEF Control
  <2>10. ControlOfTask(Loop)'
    BY <1>1, <2>6, <2>9 DEF ControlOfTask
  <2>11. \A i \in 1..Len(deferred') :
          /\ KindOf[deferred'[i].event.table] = "MultiChainState"
          /\ deferred'[i].state.table = deferred'[i].event.table
          /\ deferred'[i].state.key = deferred'[i].event.key
    BY <2>1, <2>9, MutationFields DEF ControlOfLoop
  <2>12. ControlOfLoop'
    BY <1>1, <2>6, <2>9, <2>11 DEF ControlOfLoop, loop
  <2> QED BY <1>1, <2>5, <2>7, <2>8, <2>10, <2>12, StepOfLoop DEF Types
<1> QED BY <1>3, <1>4

LEMMA AbortTypes ==
    ASSUME Types, Control, AbortDeadlocked
    PROVE  Types' /\ Control'
<1>1. PICK t \in Tasks : Panic(t)
  BY DEF AbortDeadlocked
<1>2. UNCHANGED <<ingester, crashes, tables, subtasks, deferred, loop>>
  BY DEF AbortDeadlocked
<1>3. UNCHANGED <<ingester, tables, subtasks, deferred, earliest, groups>> /\ backtracking' = backtracking
  BY <1>2 DEF loop
<1> QED BY <1>1, <1>3, PanicTypes

LEMMA StepTypes ==
    ASSUME TypeInv, [Next]_vars
    PROVE  Types' /\ Control'
<1> USE DEF TypeInv
<1>1. ASSUME NEW c \in ChainIds, ReorgChain(c) \/ PruneStateVersions(c)  PROVE Types' /\ Control'
  BY <1>1, IngesterTypes
<1>2. CASE Crash
  <2>1. CASE ChainIds = {}
    <3>1. TableTypes'
      BY <1>2 DEF Crash, ingester, tables, Types, TableTypes
    <3>2. ExecutionTypes' /\ SubtaskTypes' /\ LoopTypes'
      BY <1>2, EmptyTxnFields DEF Crash, ExecutionTypes, PcValues, SubtaskTypes, LoopTypes
    <3>3. \A t \in Tasks : ControlOfTask(t)'
      BY <1>2, Constants DEF Crash, ControlOfTask
    <3>4. ControlOfLoop'
      BY <1>2, Constants, EmptyTxnFields DEF Crash, ControlOfLoop
    <3> QED BY <2>1, <3>1, <3>2, <3>3, <3>4 DEF Types, Control
  <2> QED BY <1>2, <2>1, IngesterTypes
<1>3. ASSUME NEW c \in ChainIds, HandleEvents(c)  PROVE Types' /\ Control'
  BY <1>3, SubtaskStepTypes
<1>4. CASE HandleReorgsAndDeferred
  BY <1>4, LoadReorgedBlocksTypes, BacktrackStatesTypes, GetLatestVersionsTypes, RefreshTypes,
     CommitReorgTypes, ConsumeTypes, Constants DEF HandleReorgsAndDeferred
<1>5. CASE AbortDeadlocked
  BY <1>5, AbortTypes
<1>6. CASE UNCHANGED vars
  <2>1. UNCHANGED <<ingester, tables, execution, pc, subtasks, deferred, loop>>
    BY <1>6 DEF vars
  <2>2. Types'
    BY <2>1 DEF Types, TableTypes, ExecutionTypes, SubtaskTypes, LoopTypes, ingester, tables,
                execution, subtasks, loop
  <2>3. Control'
    BY <2>1 DEF Control, ControlOfTask, ControlOfSubtask, ControlOfLoop, event,
                execution, subtasks, loop
  <2> QED BY <2>2, <2>3
<1> QED BY <1>1, <1>2, <1>3, <1>4, <1>5, <1>6 DEF Next

-----------------------------------------------------------------------------
(* Which views a step brings into use *)

ViewsOfTask(t) == {w.view : w \in txn[t].appended \cup ToSet(refreshing[t])} \cup txn[t].inserted

ViewsOfTables == {w.view : w \in versions} \cup views

InUseParts ==
    \A v : v \in ViewsInUse <=>
              \/ v \in ViewsOfTables
              \/ \E t \in Tasks : v \in ViewsOfTask(t)
              \/ \E i \in DOMAIN deferred : v = deferred[i].state
              \/ \E c \in ChainIds : held[c] # None /\ v = held[c]

LEMMA InUseByParts == InUseParts
<1> DEFINE ofVersions == {v.view : v \in versions \cup
                             UNION {txn[t].appended \cup ToSet(refreshing[t]) : t \in Tasks}}
           inserted == UNION {txn[t].inserted : t \in Tasks}
           ofDeferred == {deferred[i].state : i \in DOMAIN deferred}
           ofSubtasks == {held[c] : c \in {d \in ChainIds : held[d] # None}}
<1>1. ViewsInUse = ofVersions \cup views \cup inserted \cup ofDeferred \cup ofSubtasks
  BY DEF ViewsInUse
<1>2. \A v : v \in ofVersions <=> \/ v \in {w.view : w \in versions}
                                  \/ \E t \in Tasks : v \in {w.view : w \in txn[t].appended \cup ToSet(refreshing[t])}
  OBVIOUS
<1>3. \A v : v \in inserted <=> \E t \in Tasks : v \in txn[t].inserted
  OBVIOUS
<1>4. \A v : v \in ofDeferred <=> \E i \in DOMAIN deferred : v = deferred[i].state
  OBVIOUS
<1>5. \A v : v \in ofSubtasks <=> \E c \in ChainIds : held[c] # None /\ v = held[c]
  OBVIOUS
<1> HIDE DEF ofVersions, inserted, ofDeferred, ofSubtasks
<1> QED BY <1>1, <1>2, <1>3, <1>4, <1>5 DEF InUseParts, ViewsOfTables, ViewsOfTask

LEMMA VisibleInUse ==
    ASSUME NEW t \in Tasks
    PROVE  /\ VisibleViews(t) \subseteq ViewsInUse
           /\ \A w \in VisibleVersions(t) : w.view \in ViewsInUse
BY InUseByParts DEF InUseParts, VisibleViews, VisibleVersions, ViewsOfTables, ViewsOfTask

LEMMA KeptTaskInUse ==
    ASSUME NEW t \in Tasks, txn'[t] = txn[t], refreshing'[t] = refreshing[t]
    PROVE  ViewsOfTask(t)' \subseteq ViewsInUse
BY InUseByParts DEF InUseParts, ViewsOfTask

LEMMA EndedTaskInUse ==
    ASSUME NEW t \in Tasks, txn'[t] = EmptyTxn, refreshing'[t] = <<>> \/ refreshing'[t] = refreshing[t]
    PROVE  ViewsOfTask(t)' \subseteq ViewsInUse
<1>1. ViewsOfTask(t)' = {w.view : w \in ToSet(refreshing'[t])}
  BY EmptyTxnFields DEF ViewsOfTask
<1>2. CASE refreshing'[t] = <<>>
  BY <1>1, <1>2 DEF ToSet
<1>3. CASE refreshing'[t] = refreshing[t]
  BY <1>1, <1>3, InUseByParts DEF InUseParts, ViewsOfTask
<1> QED BY <1>2, <1>3

\* The new view a step may bring into use, by what it is made of.
IsCreated(v) ==
    \E c \in ChainIds :
        /\ pc[c] = "handle" /\ at[c] <= Len(batch[c])
        /\ v = CreatedVersion(event(c)).view

IsUpdated(v) ==
    \E c \in ChainIds :
        /\ pc[c] = "mutate" /\ KindOf[event(c).table] # "MultiChainState"
        /\ Cardinality(Complete(c, held[c], event(c))) = 1
        /\ \E state \in Complete(c, held[c], event(c)) : v = NextVersion(state, event(c)).view

IsOfMutation(v) == deferred # <<>> /\ v = DeferredVersion.view

Arrives(v) == IsCreated(v) \/ IsUpdated(v) \/ IsOfMutation(v)

LEMMA InUseAfter ==
    ASSUME NEW S,
           ViewsOfTables' \subseteq ViewsInUse \cup S,
           \A t \in Tasks : ViewsOfTask(t)' \subseteq ViewsInUse \cup S,
           \A i \in DOMAIN deferred' : deferred'[i].state \in ViewsInUse,
           \A c \in ChainIds : held'[c] = None \/ held'[c] \in ViewsInUse
    PROVE  ViewsInUse' \subseteq ViewsInUse \cup S
<1>1. InUseParts'
  BY InUseByParts, PTL
<1> QED BY <1>1 DEF InUseParts

LEMMA KeptInUse ==
    /\ versions' \subseteq versions /\ views' \subseteq views => ViewsOfTables' \subseteq ViewsInUse
    /\ deferred' = deferred => \A i \in DOMAIN deferred' : deferred'[i].state \in ViewsInUse
    /\ held' = held => \A c \in ChainIds : held'[c] = None \/ held'[c] \in ViewsInUse
    /\ \A t \in Tasks : \A w \in ToSet(refreshing[t]) \cup txn[t].appended : w.view \in ViewsInUse
    /\ \A t \in Tasks : txn[t].inserted \subseteq ViewsInUse
<1>1. InUseParts
  BY InUseByParts
<1>2. versions' \subseteq versions /\ views' \subseteq views => ViewsOfTables' \subseteq ViewsInUse
  BY <1>1 DEF InUseParts, ViewsOfTables
<1>3. deferred' = deferred => \A i \in DOMAIN deferred' : deferred'[i].state \in ViewsInUse
  BY <1>1 DEF InUseParts
<1>4. held' = held => \A c \in ChainIds : held'[c] = None \/ held'[c] \in ViewsInUse
  BY <1>1 DEF InUseParts
<1>5. \A t \in Tasks : \A w \in ToSet(refreshing[t]) \cup txn[t].appended : w.view \in ViewsInUse
  BY <1>1 DEF InUseParts, ViewsOfTask
<1>6. \A t \in Tasks : txn[t].inserted \subseteq ViewsInUse
  BY <1>1 DEF InUseParts, ViewsOfTask
<1> QED BY <1>2, <1>3, <1>4, <1>5, <1>6

LEMMA PanicInUse ==
    ASSUME Types, NEW t \in Tasks, Panic(t), UNCHANGED <<versions, views, deferred, held>>
    PROVE  ViewsInUse' \subseteq ViewsInUse
<1>1. \A u \in Tasks : ViewsOfTask(u)' \subseteq ViewsInUse
  BY PanicEffect, EndedTaskInUse, KeptTaskInUse DEF Types, IsKept
<1>2. /\ ViewsOfTables' \subseteq ViewsInUse
      /\ \A i \in DOMAIN deferred' : deferred'[i].state \in ViewsInUse
      /\ \A c \in ChainIds : held'[c] = None \/ held'[c] \in ViewsInUse
  BY KeptInUse
<1> QED BY <1>1, <1>2, InUseAfter

LEMMA AppendInUse ==
    ASSUME Types, NEW t \in Tasks, NEW version \in TypedVersions, AppendVersion(t, version),
           UNCHANGED <<versions, views, deferred>>,
           \A c \in ChainIds : held'[c] = None \/ held'[c] \in ViewsInUse
    PROVE  ViewsInUse' \subseteq ViewsInUse \cup {version.view}
<1>1. /\ \A u \in Tasks \ {t} : IsKept(u)
      /\ \/ Panic(t)
         \/ /\ refreshing'[t] = <<version>>
            /\ txn'[t].appended = txn[t].appended \cup {version}
            /\ txn'[t].inserted = txn[t].inserted
  BY AppendVersionEffect DEF Types
<1>2. \A u \in Tasks \ {t} : ViewsOfTask(u)' \subseteq ViewsInUse
  BY <1>1, KeptTaskInUse DEF IsKept
<1>3. ViewsOfTask(t)' \subseteq ViewsInUse \cup {version.view}
  <2>1. CASE Panic(t)
    BY <2>1, PanicEffect, EndedTaskInUse DEF Types
  <2>2. CASE ~ Panic(t)
    <3>1. ToSet(refreshing'[t]) = {version}
      BY <1>1, <2>2 DEF ToSet
    <3>2. ViewsOfTask(t)' = {w.view : w \in txn'[t].appended \cup ToSet(refreshing'[t])} \cup txn'[t].inserted
      BY DEF ViewsOfTask
    <3> QED BY <1>1, <2>2, <3>1, <3>2, KeptInUse
  <2> QED BY <2>1, <2>2
<1>4. /\ ViewsOfTables' \subseteq ViewsInUse
      /\ \A i \in DOMAIN deferred' : deferred'[i].state \in ViewsInUse
  BY KeptInUse
<1> DEFINE S == {version.view}
<1>5. /\ ViewsOfTables' \subseteq ViewsInUse \cup S
      /\ \A u \in Tasks : ViewsOfTask(u)' \subseteq ViewsInUse \cup S
  BY <1>2, <1>3, <1>4
<1> HIDE DEF S
<1>6. ViewsInUse' \subseteq ViewsInUse \cup S
  BY <1>4, <1>5, InUseAfter
<1> QED BY <1>6 DEF S

LEMMA CommitInUse ==
    ASSUME Types, NEW t \in Tasks, NEW p \in PcValues,
           Commit(t), pc' = Put(pc, t, p), UNCHANGED <<refreshing, deferred, held>>
    PROVE  ViewsInUse' \subseteq ViewsInUse
<1>1. \A u \in Tasks : ViewsOfTask(u)' \subseteq ViewsInUse
  BY CommitEffect, EndedTaskInUse, KeptTaskInUse DEF Types, IsKept
<1>2. /\ \A i \in DOMAIN deferred' : deferred'[i].state \in ViewsInUse
      /\ \A c \in ChainIds : held'[c] = None \/ held'[c] \in ViewsInUse
  BY KeptInUse
<1>3. versions' = VisibleVersions(t) /\ views' = VisibleViews(t)
  BY DEF Commit, VisibleVersions, VisibleViews
<1>4. ViewsOfTables' \subseteq ViewsInUse
  BY <1>3, VisibleInUse DEF ViewsOfTables
<1> QED BY <1>1, <1>2, <1>4, InUseAfter

LEMMA RefreshInUse ==
    ASSUME Types, Control, NEW t \in Tasks, RefreshView(t) \/ ResumeRefresh(t)
    PROVE  ViewsInUse' \subseteq ViewsInUse
<1>1. UNCHANGED <<versions, views, deferred, held>>
  BY DEF RefreshView, ResumeRefresh, tables, subtasks
<1>2. refreshing[t] # <<>> /\ refreshing[t] \in Seq(TypedVersions)
  BY TxnFields DEF RefreshView, ResumeRefresh, Types, Control, ControlOfTask
<1>3. ASSUME NEW found \in SUBSET TypedViews, FinishRefresh(t, found)
      PROVE  \A u \in Tasks : ViewsOfTask(u)' \subseteq ViewsInUse
  <2>1. /\ \A u \in Tasks \ {t} : IsKept(u)
        /\ refreshing'[t] = Tail(refreshing[t])
        /\ txn'[t].appended = txn[t].appended
        /\ txn'[t].inserted = (txn[t].inserted \ found) \cup NewViews(Head(refreshing[t]))
    BY <1>2, <1>3, FinishRefreshEffect DEF Types
  <2>2. /\ Head(refreshing[t]) \in ToSet(refreshing[t]) /\ Head(refreshing[t]) \in TypedVersions
        /\ ToSet(Tail(refreshing[t])) \subseteq ToSet(refreshing[t])
    BY <1>2, HeadTailProperties, EmptyByLength DEF ToSet
  <2>3. NewViews(Head(refreshing[t])) \subseteq ViewsInUse
    BY <2>2, NewViewsOfVersion, KeptInUse
  <2>4. ViewsOfTask(t)' = {w.view : w \in txn'[t].appended \cup ToSet(refreshing'[t])} \cup txn'[t].inserted
    BY DEF ViewsOfTask
  <2>5. ViewsOfTask(t)' \subseteq ViewsInUse
    BY <2>1, <2>2, <2>3, <2>4, KeptInUse
  <2> QED BY <2>1, <2>5, KeptTaskInUse DEF IsKept
<1>4. \A u \in Tasks : ViewsOfTask(u)' \subseteq ViewsInUse
  <2> DEFINE seen == {v \in VisibleViews(t) : v.group = Head(refreshing[t]).view.group}
  <2>1. seen \in SUBSET TypedViews /\ targets[t] \in SUBSET TypedViews
    BY VisibleTyped, TxnFields DEF Types
  <2>2. CASE UNCHANGED <<txn, refreshing>>
    BY <2>2, KeptTaskInUse
  <2>3. CASE FinishRefresh(t, seen)
    BY <1>3, <2>1, <2>3
  <2>4. CASE FinishRefresh(t, targets[t])
    BY <1>3, <2>1, <2>4
  <2> QED BY <2>2, <2>3, <2>4 DEF RefreshView, ResumeRefresh
<1>5. /\ ViewsOfTables' \subseteq ViewsInUse
      /\ \A i \in DOMAIN deferred' : deferred'[i].state \in ViewsInUse
      /\ \A c \in ChainIds : held'[c] = None \/ held'[c] \in ViewsInUse
  BY <1>1, KeptInUse
<1> QED BY <1>4, <1>5, InUseAfter

\* A step that leaves the tables and the statements as they are.
LEMMA LocalsInUse ==
    ASSUME versions' \subseteq versions, views' \subseteq views,
           \A t \in Tasks : txn'[t] = txn[t] /\ refreshing'[t] = refreshing[t],
           \A i \in DOMAIN deferred' : deferred'[i].state \in ViewsInUse,
           \A c \in ChainIds : held'[c] = None \/ held'[c] \in ViewsInUse
    PROVE  ViewsInUse' \subseteq ViewsInUse
<1>1. \A t \in Tasks : ViewsOfTask(t)' \subseteq ViewsInUse
  BY KeptTaskInUse
<1>2. ViewsOfTables' \subseteq ViewsInUse
  BY KeptInUse
<1> QED BY <1>1, <1>2, InUseAfter

LEMMA IngesterInUse ==
    ASSUME Types, (\E c \in ChainIds : ReorgChain(c) \/ PruneStateVersions(c)) \/ Crash
    PROVE  ViewsInUse' \subseteq ViewsInUse
<1>1. CASE \E c \in ChainIds : ReorgChain(c) \/ PruneStateVersions(c)
  <2>1. versions' \subseteq versions /\ views' = views /\ UNCHANGED <<txn, refreshing, deferred, held>>
    BY <1>1 DEF ReorgChain, PruneStateVersions, tables, execution, subtasks
  <2> QED BY <2>1, LocalsInUse, KeptInUse
<1>2. CASE Crash
  <2>1. /\ versions' = versions /\ views' = views /\ deferred' = <<>>
        /\ \A t \in Tasks : txn'[t] = EmptyTxn /\ refreshing'[t] = <<>>
        /\ \A c \in ChainIds : held'[c] = None
    BY <1>2 DEF Crash, tables
  <2>2. \A t \in Tasks : ViewsOfTask(t)' \subseteq ViewsInUse
    BY <2>1, EndedTaskInUse
  <2>3. ViewsOfTables' \subseteq ViewsInUse
    BY <2>1, KeptInUse
  <2>4. \A i \in DOMAIN deferred' : deferred'[i].state \in ViewsInUse
    BY <2>1
  <2> QED BY <2>1, <2>2, <2>3, <2>4, InUseAfter
<1> QED BY <1>1, <1>2

LEMMA ReadOneInUse ==
    ASSUME Types, Control, InUse, NEW c \in ChainIds, ReadOne(c)
    PROVE  \/ ViewsInUse' \subseteq ViewsInUse
           \/ \E v : IsCreated(v) /\ ViewsInUse' \subseteq ViewsInUse \cup {v}
<1> DEFINE found == ReadMany(c, event(c))
<1>1. /\ pc[c] = "handle" /\ at[c] <= Len(batch[c]) /\ c \in Tasks
      /\ UNCHANGED <<versions, views, deferred>>
  BY Constants DEF ReadOne, tables
<1>2. CASE UNCHANGED execution /\ ((\E state \in found : held' = Put(held, c, state)) \/ held' = held)
  <2>1. \A d \in ChainIds : held'[d] = None \/ held'[d] \in ViewsInUse
    <3>1. CASE held' = held
      BY <3>1, KeptInUse
    <3>2. ASSUME NEW state \in found, held' = Put(held, c, state)
          PROVE  \A d \in ChainIds : held'[d] = None \/ held'[d] \in ViewsInUse
      <4>1. state \in ViewsInUse
        BY <1>1, VisibleInUse DEF ReadMany
      <4>2. \A d \in ChainIds : held'[d] = held[d] \/ held'[d] = state
        BY <3>2 DEF Put, Types, SubtaskTypes
      <4>3. \A d \in ChainIds : held[d] = None \/ held[d] \in ViewsInUse
        BY InUseByParts DEF InUseParts
      <4> QED BY <4>1, <4>2, <4>3
    <3> QED BY <1>2, <3>1, <3>2
  <2>2. \A t \in Tasks : txn'[t] = txn[t] /\ refreshing'[t] = refreshing[t]
    BY <1>2 DEF execution
  <2>3. \A i \in DOMAIN deferred' : deferred'[i].state \in ViewsInUse
    BY <1>1, KeptInUse
  <2> QED BY <1>1, <2>1, <2>2, <2>3, LocalsInUse
<1>3. CASE AppendVersion(c, CreatedVersion(event(c))) /\ held' = held
  <2>1. CreatedVersion(event(c)) \in TypedVersions
    BY <1>1, EventAtHand, NewGroupIsFresh, CreatedVersionOfEvent
  <2>2. ViewsInUse' \subseteq ViewsInUse \cup {CreatedVersion(event(c)).view}
    BY <1>1, <1>3, <2>1, AppendInUse, KeptInUse
  <2> QED BY <1>1, <2>2 DEF IsCreated
<1> QED BY <1>2, <1>3 DEF ReadOne

LEMMA MutateInUse ==
    ASSUME Types, Control, NEW c \in ChainIds, Mutate(c)
    PROVE  \/ ViewsInUse' \subseteq ViewsInUse
           \/ \E v : IsUpdated(v) /\ ViewsInUse' \subseteq ViewsInUse \cup {v}
<1> DEFINE complete == Complete(c, held[c], event(c))
<1>1. /\ pc[c] = "mutate" /\ c \in Tasks /\ UNCHANGED <<versions, views, deferred>>
  BY Constants DEF Mutate, tables
<1>2. \A d \in ChainIds : held[d] = None \/ held[d] \in ViewsInUse
  BY InUseByParts DEF InUseParts
<1>3. CASE Panic(c) /\ UNCHANGED <<at, held>>
  BY <1>1, <1>3, PanicInUse
<1>4. CASE /\ Cardinality(complete) = 1 /\ KindOf[event(c).table] # "MultiChainState"
           /\ \E state \in complete : AppendVersion(c, NextVersion(state, event(c)))
           /\ held' = Put(held, c, None)
  <2>1. PICK state \in complete : AppendVersion(c, NextVersion(state, event(c)))
    BY <1>4
  <2>2. event(c) \in Events /\ state \in TypedViews
    <3>1. at[c] <= Len(batch[c])
      BY <1>1 DEF Control, ControlOfSubtask
    <3> QED BY <1>1, <3>1, EventAtHand, VisibleTyped DEF Complete, Types
  <2>3. NextVersion(state, event(c)) \in TypedVersions
    BY <2>2, NextVersionOfState
  <2>4. \A d \in ChainIds : held'[d] = None \/ held'[d] \in ViewsInUse
    BY <1>2, <1>4 DEF Put, Types, SubtaskTypes
  <2>5. ViewsInUse' \subseteq ViewsInUse \cup {NextVersion(state, event(c)).view}
    BY <1>1, <2>1, <2>3, <2>4, AppendInUse
  <2>6. IsUpdated(NextVersion(state, event(c)).view)
    BY <1>1, <1>4, <2>1 DEF IsUpdated
  <2> QED BY <2>5, <2>6
<1>5. CASE /\ \E state \in complete : held' = Put(held, c, state)
           /\ UNCHANGED execution
  <2>1. PICK state \in complete : held' = Put(held, c, state)
    BY <1>5
  <2>2. state \in ViewsInUse
    BY <1>1, <2>1, VisibleInUse DEF Complete
  <2>3. \A d \in ChainIds : held'[d] = None \/ held'[d] \in ViewsInUse
    BY <1>2, <2>1, <2>2 DEF Put, Types, SubtaskTypes
  <2>4. \A t \in Tasks : txn'[t] = txn[t] /\ refreshing'[t] = refreshing[t]
    BY <1>5 DEF execution
  <2>5. \A i \in DOMAIN deferred' : deferred'[i].state \in ViewsInUse
    BY <1>1, KeptInUse
  <2> QED BY <1>1, <2>3, <2>4, <2>5, LocalsInUse
<1> QED BY <1>3, <1>4, <1>5 DEF Mutate

LEMMA AddDeferredInUse ==
    ASSUME Types, Control, NEW c \in ChainIds, AddDeferred(c)
    PROVE  ViewsInUse' \subseteq ViewsInUse
<1> DEFINE mutation == [state |-> held[c], event |-> event(c)]
           Mutations == [state : TypedViews, event : Events]
<1>1. /\ pc[c] = "defer" /\ deferred' = Append(deferred, mutation) /\ held' = Put(held, c, None)
      /\ UNCHANGED <<versions, views, txn, refreshing>>
  BY DEF AddDeferred, tables, execution
<1>2. held[c] # None /\ held[c] \in TypedViews /\ event(c) \in Events
  BY <1>1, EventAtHand DEF Types, SubtaskTypes, Control, ControlOfSubtask
<1>3. \A d \in ChainIds : held[d] = None \/ held[d] \in ViewsInUse
  BY InUseByParts DEF InUseParts
<1>4. \A d \in ChainIds : held'[d] = None \/ held'[d] \in ViewsInUse
  BY <1>1, <1>3 DEF Put, Types, SubtaskTypes
<1>5. mutation \in Mutations /\ mutation.state = held[c] /\ deferred \in Seq(Mutations)
  BY <1>2 DEF Types, LoopTypes
<1> HIDE DEF mutation, Mutations
<1>6. \A i \in DOMAIN deferred' : \/ i \in DOMAIN deferred /\ deferred'[i] = deferred[i]
                                  \/ deferred'[i] = mutation
  BY <1>1, <1>5
<1>7. \A i \in DOMAIN deferred : deferred[i].state \in ViewsInUse
  BY InUseByParts DEF InUseParts
<1>8. \A i \in DOMAIN deferred' : deferred'[i].state \in ViewsInUse
  BY <1>2, <1>3, <1>5, <1>6, <1>7
<1> QED BY <1>1, <1>4, <1>8, LocalsInUse

LEMMA SubtaskInUse ==
    ASSUME Types, Control, InUse, NEW c \in ChainIds, HandleEvents(c)
    PROVE  \/ ViewsInUse' \subseteq ViewsInUse
           \/ \E v : Arrives(v) /\ ViewsInUse' \subseteq ViewsInUse \cup {v}
<1>1. CASE StreamContractAddresses(c) \/ BeginTransaction(c)
  <2>1. UNCHANGED <<versions, views, txn, refreshing, deferred, held>>
    BY <1>1 DEF StreamContractAddresses, BeginTransaction, tables, execution
  <2> QED BY <2>1, LocalsInUse, KeptInUse
<1>2. CASE CommitTransaction(c)
  <2>1. /\ Commit(c) /\ pc' = Put(pc, c, "stream") /\ UNCHANGED <<refreshing, deferred, held>>
        /\ "stream" \in PcValues
    BY <1>2 DEF CommitTransaction, PcValues
  <2> QED BY <2>1, CommitInUse, Constants
<1>3. CASE RefreshView(c) \/ ResumeRefresh(c)
  BY <1>3, RefreshInUse, Constants
<1>4. CASE ReadOne(c) \/ Mutate(c) \/ AddDeferred(c)
  BY <1>4, ReadOneInUse, MutateInUse, AddDeferredInUse DEF Arrives
<1> QED BY <1>1, <1>2, <1>3, <1>4 DEF HandleEvents

LEMMA LoopInUse ==
    ASSUME Types, Control, InUse, HandleReorgsAndDeferred
    PROVE  \/ ViewsInUse' \subseteq ViewsInUse
           \/ \E v : IsOfMutation(v) /\ ViewsInUse' \subseteq ViewsInUse \cup {v}
<1>1. CASE LoadReorgedBlocks \/ EndRound
  <2>1. UNCHANGED <<versions, views, txn, refreshing, deferred, held>>
    BY <1>1 DEF LoadReorgedBlocks, EndRound, tables, execution, subtasks
  <2> QED BY <2>1, LocalsInUse, KeptInUse
<1>2. CASE BacktrackStates
  <2>1. UNCHANGED <<versions, views, deferred, held>>
    BY <1>2 DEF BacktrackStates, tables, subtasks
  <2>2. CASE Panic(Loop)
    BY <2>1, <2>2, PanicInUse, Constants
  <2>3. CASE ~ Panic(Loop)
    <3>1. PICK found : txn' = [txn EXCEPT ![Loop].dropped = @ \cup found] /\ refreshing' = refreshing
      BY <1>2, <2>3 DEF BacktrackStates
    <3>2. \A t \in Tasks : /\ txn'[t].appended = txn[t].appended
                           /\ txn'[t].inserted = txn[t].inserted
      BY <3>1 DEF Types, ExecutionTypes, Txns
    <3>3. \A t \in Tasks : ViewsOfTask(t)' = ViewsOfTask(t)
      BY <3>1, <3>2 DEF ViewsOfTask
    <3>4. \A t \in Tasks : ViewsOfTask(t)' \subseteq ViewsInUse
      BY <3>3, InUseByParts DEF InUseParts
    <3>5. /\ ViewsOfTables' \subseteq ViewsInUse
          /\ \A i \in DOMAIN deferred' : deferred'[i].state \in ViewsInUse
          /\ \A c \in ChainIds : held'[c] = None \/ held'[c] \in ViewsInUse
      BY <2>1, KeptInUse
    <3> QED BY <3>4, <3>5, InUseAfter
  <2> QED BY <2>2, <2>3
<1>3. CASE GetLatestVersions
  <2>1. PICK latest \in SUBSET {v \in VisibleVersions(Loop) : IsLatest(v)} :
          /\ \A v, w \in latest : v.view.group = w.view.group => v = w
          /\ \E order \in SetToSeqs(latest) : refreshing' = Put(refreshing, Loop, order)
    BY <1>3 DEF GetLatestVersions
  <2>2. PICK order \in SetToSeqs(latest) : refreshing' = Put(refreshing, Loop, order)
    BY <2>1
  <2>3. UNCHANGED <<versions, views, txn, deferred, held>>
    BY <1>3 DEF GetLatestVersions, tables, subtasks
  <2>4. ToSet(order) \subseteq VisibleVersions(Loop)
    <3>1. latest \in SUBSET VisibleVersions(Loop)
      OBVIOUS
    <3>2. ToSet(order) \subseteq latest
      BY <2>1, <2>2, <3>1, OrderedVersions
    <3> QED BY <3>1, <3>2
  <2>5. refreshing'[Loop] = order /\ \A t \in Tasks \ {Loop} : refreshing'[t] = refreshing[t]
    BY <2>2, Constants DEF Put, Types, ExecutionTypes
  <2>6. ViewsOfTask(Loop)' = {w.view : w \in txn[Loop].appended \cup ToSet(order)} \cup txn[Loop].inserted
    BY <2>3, <2>5 DEF ViewsOfTask
  <2>7. ViewsOfTask(Loop)' \subseteq ViewsInUse
    BY <2>4, <2>6, VisibleInUse, KeptInUse, Constants
  <2>8. \A t \in Tasks : ViewsOfTask(t)' \subseteq ViewsInUse
    BY <2>3, <2>5, <2>7, KeptTaskInUse
  <2> QED BY <2>3, <2>8, InUseAfter, KeptInUse
<1>4. CASE RefreshView(Loop) \/ ResumeRefresh(Loop)
  BY <1>4, RefreshInUse, Constants
<1>5. CASE CommitReorg
  <2>1. /\ Commit(Loop) /\ pc' = Put(pc, Loop, "consume") /\ UNCHANGED <<refreshing, deferred, held>>
        /\ "consume" \in PcValues
    BY <1>5 DEF CommitReorg, PcValues, subtasks
  <2> QED BY <2>1, CommitInUse, Constants
<1>6. CASE ConsumeDeferred \/ DeleteWithoutTxn \/ CreateWithoutTxn
  <2>1. UNCHANGED held
    BY <1>6 DEF ConsumeDeferred, DeleteWithoutTxn, CreateWithoutTxn, subtasks
  <2>2. CASE Panic(Loop) /\ UNCHANGED <<versions, views, deferred>>
    BY <2>1, <2>2, PanicInUse, Constants
  <2>3. CASE ~ (Panic(Loop) /\ UNCHANGED <<versions, views, deferred>>)
    <3>1. deferred # <<>>
      BY <1>6 DEF ConsumeDeferred, HasDeferred, DeleteWithoutTxn, CreateWithoutTxn, Control, ControlOfLoop
    <3>2. /\ versions' \subseteq versions \cup {DeferredVersion}
          /\ views' \subseteq views \cup NewViews(DeferredVersion)
          /\ deferred' = deferred \/ deferred' = Remaining
          /\ UNCHANGED <<txn, refreshing>>
      BY <1>6, <2>3 DEF ConsumeDeferred, DeleteWithoutTxn, CreateWithoutTxn, execution
    <3>3. NewViews(DeferredVersion) \subseteq {DeferredVersion.view}
      BY <3>1, MutationFields, NewViewsOfVersion
    <3>4. \A i \in DOMAIN deferred : deferred[i].state \in ViewsInUse
      BY InUseByParts DEF InUseParts
    <3>5. \A i \in DOMAIN deferred' : deferred'[i].state \in ViewsInUse
      <4>1. CASE deferred' = deferred
        BY <3>4, <4>1
      <4>2. CASE deferred' = Remaining
        <5>1. DOMAIN Remaining = 1..Len(Remaining) /\ DOMAIN deferred = 1..Len(deferred)
          BY <3>1, MutationFields, DeferredFields DEF Types
        <5> QED BY <3>1, <3>4, <4>2, <5>1, MutationFields
      <4> QED BY <3>2, <4>1, <4>2
    <3> DEFINE S == {DeferredVersion.view}
    <3>6. ViewsOfTables' \subseteq ViewsInUse \cup S
      BY <3>2, <3>3, InUseByParts DEF InUseParts, ViewsOfTables
    <3>7. \A t \in Tasks : ViewsOfTask(t)' \subseteq ViewsInUse \cup S
      BY <3>2, KeptTaskInUse
    <3>8. \A c \in ChainIds : held'[c] = None \/ held'[c] \in ViewsInUse
      BY <2>1, KeptInUse
    <3> HIDE DEF S
    <3>9. ViewsInUse' \subseteq ViewsInUse \cup S
      BY <3>5, <3>6, <3>7, <3>8, InUseAfter
    <3>10. IsOfMutation(DeferredVersion.view)
      BY <3>1 DEF IsOfMutation
    <3> QED BY <3>9, <3>10 DEF S
  <2> QED BY <2>2, <2>3
<1> QED BY <1>1, <1>2, <1>3, <1>4, <1>5, <1>6 DEF HandleReorgsAndDeferred

LEMMA StepInUse ==
    ASSUME TypeInv, [Next]_vars
    PROVE  \/ ViewsInUse' \subseteq ViewsInUse
           \/ \E v : Arrives(v) /\ ViewsInUse' \subseteq ViewsInUse \cup {v}
<1> USE DEF TypeInv
<1>1. CASE (\E c \in ChainIds : ReorgChain(c) \/ PruneStateVersions(c)) \/ Crash
  BY <1>1, IngesterInUse
<1>2. ASSUME NEW c \in ChainIds, HandleEvents(c)
      PROVE  \/ ViewsInUse' \subseteq ViewsInUse
             \/ \E v : Arrives(v) /\ ViewsInUse' \subseteq ViewsInUse \cup {v}
  BY <1>2, SubtaskInUse
<1>3. CASE HandleReorgsAndDeferred
  BY <1>3, LoopInUse DEF Arrives
<1>4. CASE AbortDeadlocked
  <2>1. PICK t \in Tasks : Panic(t)
    BY <1>4 DEF AbortDeadlocked
  <2>2. UNCHANGED <<versions, views, deferred, held>>
    BY <1>4 DEF AbortDeadlocked, tables, subtasks
  <2> QED BY <2>1, <2>2, PanicInUse
<1>5. CASE UNCHANGED vars
  <2>1. UNCHANGED <<versions, views, txn, refreshing, deferred, held>>
    BY <1>5 DEF vars, tables, execution, subtasks
  <2> QED BY <2>1, LocalsInUse, KeptInUse
<1> QED BY <1>1, <1>2, <1>3, <1>4, <1>5 DEF Next

\* What arrives is a row of the table and key of its event.
LEMMA ArrivalFields ==
    ASSUME TypeInv, NEW v, Arrives(v)
    PROVE  /\ v \in TypedViews /\ v.table = v.event.table /\ v.key = v.event.key
<1> USE DEF TypeInv
<1>1. ASSUME NEW c \in ChainIds, pc[c] = "handle", at[c] <= Len(batch[c]),
             v = CreatedVersion(event(c)).view
      PROVE  v \in TypedViews /\ v.table = v.event.table /\ v.key = v.event.key
  <2>1. event(c) \in Events /\ NewGroup \in Nat
    BY <1>1, EventAtHand, NewGroupIsFresh
  <2> DEFINE created == CreatedVersion(event(c))
  <2>2. /\ created \in TypedVersions
        /\ created.view.table = event(c).table /\ created.view.key = event(c).key
        /\ created.view.event = event(c)
    BY <2>1, CreatedVersionOfEvent
  <2> HIDE DEF created
  <2> QED BY <1>1, <2>2, VersionFields DEF created
<1>2. ASSUME NEW c \in ChainIds, pc[c] = "mutate",
             NEW state \in Complete(c, held[c], event(c)), v = NextVersion(state, event(c)).view
      PROVE  v \in TypedViews /\ v.table = v.event.table /\ v.key = v.event.key
  <2>1. /\ at[c] <= Len(batch[c])
        /\ held[c].table = event(c).table /\ held[c].key = event(c).key
    BY <1>2 DEF Control, ControlOfSubtask
  <2>2. event(c) \in Events /\ state \in TypedViews
    BY <2>1, EventAtHand, VisibleTyped, Constants DEF Complete, Types
  <2>3. state.table = held[c].table /\ state.key = held[c].key
    BY DEF Complete
  <2> QED BY <1>2, <2>1, <2>2, <2>3, NextVersionOfState, VersionFields
<1>3. ASSUME deferred # <<>>, v = DeferredVersion.view
      PROVE  v \in TypedViews /\ v.table = v.event.table /\ v.key = v.event.key
  <2>1. /\ Mutation.state \in TypedViews /\ Mutation.event \in Events
        /\ Mutation.state.table = Mutation.event.table /\ Mutation.state.key = Mutation.event.key
    BY <1>3, MutationFields
  <2>2. v = NextVersion(Mutation.state, Mutation.event).view
    BY <1>3 DEF DeferredVersion
  <2> HIDE DEF Mutation
  <2> QED BY <2>1, <2>2, NextVersionOfState, VersionFields
<1> QED BY <1>1, <1>2, <1>3 DEF Arrives, IsCreated, IsUpdated, IsOfMutation

LEMMA GroupsStep ==
    ASSUME TypeInv, [Next]_vars
    PROVE  \/ groups' = groups \/ groups' = {}
           \/ \E found \in SUBSET VisibleVersions(Loop) :
                 BacktrackStates /\ groups' = {v.view.group : v \in found}
<1>1. CASE BacktrackStates
  BY <1>1 DEF BacktrackStates, VersionsFrom
<1>2. CASE ~ BacktrackStates
  BY <1>2 DEF Next, vars, loop, ReorgChain, PruneStateVersions, Crash, HandleEvents,
     StreamContractAddresses, BeginTransaction, ReadOne, Mutate, AddDeferred, RefreshView,
     ResumeRefresh, CommitTransaction, HandleReorgsAndDeferred, LoadReorgedBlocks,
     GetLatestVersions, CommitReorg, ConsumeDeferred, DeleteWithoutTxn, CreateWithoutTxn,
     EndRound, AbortDeadlocked
<1> QED BY <1>1, <1>2

LEMMA InUseStep ==
    ASSUME TypeInv, [Next]_vars
    PROVE  InUse'
<1>1. IsFiniteSet(ViewsInUse) /\ \A v \in ViewsInUse : v.table = v.event.table /\ v.key = v.event.key
  BY DEF TypeInv, InUse
<1>2. /\ IsFiniteSet(ViewsInUse')
      /\ \A v \in ViewsInUse' : v.table = v.event.table /\ v.key = v.event.key
  <2>1. CASE ViewsInUse' \subseteq ViewsInUse
    BY <1>1, <2>1, FS_Subset
  <2>2. ASSUME NEW v, Arrives(v), ViewsInUse' \subseteq ViewsInUse \cup {v}
        PROVE  /\ IsFiniteSet(ViewsInUse')
               /\ \A w \in ViewsInUse' : w.table = w.event.table /\ w.key = w.event.key
    <3>1. IsFiniteSet(ViewsInUse \cup {v})
      BY <1>1, FS_AddElement
    <3>2. IsFiniteSet(ViewsInUse')
      BY <2>2, <3>1, FS_Subset
    <3> QED BY <1>1, <2>2, <3>2, ArrivalFields
  <2> QED BY <2>1, <2>2, StepInUse
<1>3. IsFiniteSet(groups')
  <2>1. ASSUME NEW found \in SUBSET VisibleVersions(Loop), groups' = {v.view.group : v \in found}
        PROVE  IsFiniteSet(groups')
    <3> DEFINE f == [v \in ViewsInUse |-> v.group]
               all == {f[v] : v \in ViewsInUse}
    <3>1. groups' \subseteq all
      BY <2>1, VisibleInUse, Constants
    <3>2. IsFiniteSet(all)
      <4>1. DOMAIN f = ViewsInUse
        OBVIOUS
      <4> HIDE DEF f
      <4> QED BY <1>1, <4>1, FiniteImage
    <3> HIDE DEF all
    <3> QED BY <3>1, <3>2, FS_Subset
  <2>2. IsFiniteSet(groups) /\ IsFiniteSet({})
    BY FS_EmptySet DEF TypeInv, InUse
  <2> QED BY <2>1, <2>2, GroupsStep
<1> QED BY <1>2, <1>3 DEF InUse

LEMMA InitTypeInv == Init => TypeInv
<1> SUFFICES ASSUME Init PROVE TypeInv
  OBVIOUS
<1>1. Types /\ Control
  BY InitTypes
<1>2. ViewsInUse = {}
  <2>1. /\ ViewsOfTables = {} /\ deferred = <<>> /\ \A c \in ChainIds : held[c] = None
    BY DEF Init, ViewsOfTables
  <2>2. \A t \in Tasks : ViewsOfTask(t) = {}
    BY EmptyTxnFields DEF Init, ViewsOfTask, ToSet
  <2>3. \A v : v \notin ViewsInUse
    BY <2>1, <2>2, InUseByParts DEF InUseParts
  <2> QED BY <2>3
<1>3. InUse
  BY <1>2, FS_EmptySet DEF Init, InUse
<1> QED BY <1>1, <1>3 DEF TypeInv

LEMMA TypeInvIsInvariant == Spec => []TypeInv
<1>1. TypeInv /\ [Next]_vars => TypeInv'
  BY StepTypes, InUseStep DEF TypeInv
<1> QED BY <1>1, InitTypeInv, PTL DEF Spec

\* Every variable of States stays within its type, a task has an open transaction, a
\* statement or a state read only where the code has one, and only mutations of
\* multi-chain states are deferred (states.rs, states/).
THEOREM TypeCorrect == Spec => []TypeOK
<1>1. TypeInv => TypeOK
  <2> SUFFICES ASSUME TypeInv PROVE TypeOK
    OBVIOUS
  <2>1. /\ fork \in [ChainIds -> [BlockNumbers -> 0..MaxReorgs]]
        /\ \A r \in reorged_blocks : r.id \in 1..MaxReorgs /\ r.chain_id \in ChainIds
        /\ next_block_number_to_handle_from \in [ContractAddresses -> Nat]
        /\ \A v \in versions : v \in TypedVersions
        /\ \A v \in views : v \in TypedViews
    BY DEF TypeInv, Types, TableTypes, ReorgRows
  <2>2. \A t \in Tasks : ControlOfTask(t)
    BY DEF TypeInv, Control
  <2>3. \A c \in ChainIds : held[c] # None => pc[c] \in {"mutate", "defer", "dead"}
    BY DEF TypeInv, Control, ControlOfSubtask
  <2>4. \A i \in DOMAIN deferred : KindOf[deferred[i].event.table] = "MultiChainState"
    BY DeferredFields DEF TypeInv, Types, Control, ControlOfLoop
  <2> QED BY <2>1, <2>2, <2>3, <2>4 DEF TypeOK, ControlOfTask
<1> QED BY <1>1, TypeInvIsInvariant, PTL

-----------------------------------------------------------------------------
(* Whom a step concerns *)

LEMMA SubtaskStepKeeps ==
    ASSUME TypeInv, NEW c \in ChainIds, HandleEvents(c)
    PROVE  /\ \A u \in Tasks \ {c} : IsKept(u)
           /\ \A d \in ChainIds \ {c} : IsKeptSubtask(d)
           /\ UNCHANGED <<ingester, crashes, handled_reorged_blocks, loop>>
<1> USE DEF TypeInv
<1>1. c \in Tasks /\ c # Loop
  BY Constants
<1>2. CASE StreamContractAddresses(c) \/ BeginTransaction(c)
  BY <1>2 DEF StreamContractAddresses, BeginTransaction, IsKept, IsKeptSubtask, tables, execution,
     Put, Types, ExecutionTypes, SubtaskTypes
<1>3. CASE ReadOne(c)
  <2>1. \A u \in Tasks \ {c} : IsKept(u)
    <3>1. CASE UNCHANGED execution /\ (pc' = Put(pc, c, "mutate") \/ UNCHANGED pc)
      BY <3>1 DEF execution, Put, Types, ExecutionTypes, IsKept
    <3>2. CASE AppendVersion(c, CreatedVersion(event(c)))
      <4>1. CreatedVersion(event(c)) \in TypedVersions
        BY <1>3, EventAtHand, NewGroupIsFresh, CreatedVersionOfEvent DEF ReadOne
      <4> QED BY <1>1, <3>2, <4>1, AppendVersionEffect DEF Types
    <3> QED BY <1>3, <3>1, <3>2 DEF ReadOne
  <2>2. \A d \in ChainIds \ {c} : IsKeptSubtask(d)
    BY <1>3 DEF ReadOne, IsKeptSubtask, Put, Types, SubtaskTypes
  <2> QED BY <1>3, <2>1, <2>2 DEF ReadOne, tables
<1>4. CASE Mutate(c)
  <2>1. \A u \in Tasks \ {c} : IsKept(u)
    <3>1. CASE UNCHANGED execution /\ pc' = Put(pc, c, "defer")
      BY <3>1 DEF execution, Put, Types, ExecutionTypes, IsKept
    <3>2. CASE Panic(c)
      BY <1>1, <3>2, PanicEffect DEF Types
    <3>3. CASE \E state \in Complete(c, held[c], event(c)) : AppendVersion(c, NextVersion(state, event(c)))
      <4>1. PICK state \in Complete(c, held[c], event(c)) : AppendVersion(c, NextVersion(state, event(c)))
        BY <3>3
      <4>2. at[c] <= Len(batch[c])
        BY <1>4 DEF Mutate, Control, ControlOfSubtask
      <4>3. NextVersion(state, event(c)) \in TypedVersions
        BY <1>1, <4>2, EventAtHand, VisibleTyped, NextVersionOfState DEF Complete, Types
      <4> QED BY <1>1, <4>1, <4>3, AppendVersionEffect DEF Types
    <3> QED BY <1>4, <3>1, <3>2, <3>3 DEF Mutate
  <2>2. \A d \in ChainIds \ {c} : IsKeptSubtask(d)
    BY <1>4 DEF Mutate, IsKeptSubtask, Put, Types, SubtaskTypes
  <2> QED BY <1>4, <2>1, <2>2 DEF Mutate, tables
<1>5. CASE AddDeferred(c)
  BY <1>5 DEF AddDeferred, IsKept, IsKeptSubtask, tables, execution, Put, Types, ExecutionTypes, SubtaskTypes
<1>6. CASE RefreshView(c) \/ ResumeRefresh(c)
  <2>1. \A u \in Tasks \ {c} : IsKept(u)
    <3> DEFINE seen == {v \in VisibleViews(c) : v.group = Head(refreshing[c]).view.group}
    <3>1. refreshing[c] # <<>>
      BY <1>1, <1>6 DEF RefreshView, ResumeRefresh, Control, ControlOfTask
    <3>2. seen \in SUBSET TypedViews /\ targets[c] \in SUBSET TypedViews
      BY <1>1, VisibleTyped, TxnFields DEF Types
    <3>3. CASE UNCHANGED <<txn, refreshing>> /\ targets' = Put(targets, c, seen) /\ pc' = Put(pc, c, "waiting")
      BY <3>3 DEF Put, Types, ExecutionTypes, IsKept
    <3>4. ASSUME NEW found \in SUBSET TypedViews, FinishRefresh(c, found)
          PROVE  \A u \in Tasks \ {c} : IsKept(u)
      BY <1>1, <3>1, <3>4, FinishRefreshEffect DEF Types
    <3> QED BY <1>6, <3>2, <3>3, <3>4 DEF RefreshView, ResumeRefresh
  <2> QED BY <1>6, <2>1 DEF RefreshView, ResumeRefresh, IsKeptSubtask, tables, subtasks
<1>7. CASE CommitTransaction(c)
  <2>1. Commit(c) /\ pc' = Put(pc, c, "stream") /\ UNCHANGED refreshing /\ "stream" \in PcValues
    BY <1>7 DEF CommitTransaction, PcValues
  <2>2. \A u \in Tasks \ {c} : IsKept(u)
    BY <1>1, <2>1, CommitEffect DEF Types
  <2> QED BY <1>7, <2>2 DEF CommitTransaction, IsKeptSubtask, Put, Types, SubtaskTypes
<1> QED BY <1>2, <1>3, <1>4, <1>5, <1>6, <1>7 DEF HandleEvents

LEMMA LoopStepKeeps ==
    ASSUME TypeInv, HandleReorgsAndDeferred
    PROVE  /\ \A u \in Tasks \ {Loop} : IsKept(u)
           /\ UNCHANGED <<ingester, crashes, subtasks>>
<1> USE DEF TypeInv
<1>1. UNCHANGED <<ingester, crashes, subtasks>>
  BY DEF HandleReorgsAndDeferred, LoadReorgedBlocks, BacktrackStates, GetLatestVersions, RefreshView,
     ResumeRefresh, CommitReorg, ConsumeDeferred, DeleteWithoutTxn, CreateWithoutTxn, EndRound
<1>2. CASE Panic(Loop)
  BY <1>1, <1>2, PanicEffect, Constants DEF Types
<1>3. CASE (LoadReorgedBlocks \/ EndRound \/ ConsumeDeferred \/ DeleteWithoutTxn \/ CreateWithoutTxn) /\ ~ Panic(Loop)
  <2>1. UNCHANGED execution /\ \E p : pc' = Put(pc, Loop, p)
    BY <1>3 DEF LoadReorgedBlocks, EndRound, ConsumeDeferred, DeleteWithoutTxn, CreateWithoutTxn
  <2> QED BY <1>1, <2>1 DEF execution, IsKept, Put, Types, ExecutionTypes
<1>4. CASE BacktrackStates /\ ~ Panic(Loop)
  <2>1. PICK found : /\ txn' = [txn EXCEPT ![Loop].dropped = @ \cup found]
                     /\ pc' = Put(pc, Loop, "latest") /\ UNCHANGED <<targets, refreshing>>
    BY <1>4 DEF BacktrackStates
  <2>2. \A u \in Tasks \ {Loop} : txn'[u] = txn[u]
    BY <2>1 DEF Types, ExecutionTypes
  <2> QED BY <1>1, <2>1, <2>2 DEF IsKept, Put, Types, ExecutionTypes
<1>5. CASE GetLatestVersions
  <2>1. (\E order : refreshing' = Put(refreshing, Loop, order)) /\ \E p : pc' = Put(pc, Loop, p)
    BY <1>5 DEF GetLatestVersions
  <2> QED BY <1>1, <1>5, <2>1 DEF GetLatestVersions, IsKept, Put, Types, ExecutionTypes
<1>6. CASE RefreshView(Loop) \/ ResumeRefresh(Loop)
  <2> DEFINE seen == {v \in VisibleViews(Loop) : v.group = Head(refreshing[Loop]).view.group}
  <2>1. refreshing[Loop] # <<>>
    BY <1>6, Constants DEF RefreshView, ResumeRefresh, Control, ControlOfTask
  <2>2. seen \in SUBSET TypedViews /\ targets[Loop] \in SUBSET TypedViews
    BY VisibleTyped, TxnFields, Constants DEF Types
  <2>3. CASE UNCHANGED <<txn, refreshing>> /\ targets' = Put(targets, Loop, seen) /\ pc' = Put(pc, Loop, "waiting")
    BY <1>1, <2>3 DEF Put, Types, ExecutionTypes, IsKept
  <2>4. ASSUME NEW found \in SUBSET TypedViews, FinishRefresh(Loop, found)
        PROVE  \A u \in Tasks \ {Loop} : IsKept(u)
    BY <2>1, <2>4, FinishRefreshEffect, Constants DEF Types
  <2> QED BY <1>1, <1>6, <2>2, <2>3, <2>4 DEF RefreshView, ResumeRefresh
<1>7. CASE CommitReorg
  <2>1. Commit(Loop) /\ pc' = Put(pc, Loop, "consume") /\ UNCHANGED refreshing /\ "consume" \in PcValues
    BY <1>7 DEF CommitReorg, PcValues
  <2> QED BY <1>1, <2>1, CommitEffect, Constants DEF Types
<1> QED BY <1>2, <1>3, <1>4, <1>5, <1>6, <1>7 DEF HandleReorgsAndDeferred

-----------------------------------------------------------------------------
(* A re-organization stays on its chain *)

\* Handled ids are only added, by the commit of a round.
LEMMA HandledStep ==
    ASSUME [Next]_vars
    PROVE  \/ CommitReorg
           \/ handled_reorged_blocks' = handled_reorged_blocks
BY DEF Next, vars, tables, ReorgChain, PruneStateVersions, Crash, HandleEvents,
     StreamContractAddresses, BeginTransaction, ReadOne, Mutate, AddDeferred, RefreshView,
     ResumeRefresh, CommitTransaction, HandleReorgsAndDeferred, LoadReorgedBlocks,
     BacktrackStates, GetLatestVersions, CommitReorg, ConsumeDeferred, DeleteWithoutTxn,
     CreateWithoutTxn, EndRound, AbortDeadlocked

LEMMA RoundOpenKept ==
    ASSUME RoundOpen, reorged_blocks \subseteq reorged_blocks',
           UNCHANGED <<handled_reorged_blocks, earliest>>, backtracking' \subseteq backtracking,
           \/ pc'[Loop] = pc[Loop] \/ pc'[Loop] = "dead"
           \/ /\ pc[Loop] \in {"backtrack", "latest", "refresh", "waiting"}
              /\ pc'[Loop] \in {"backtrack", "latest", "refresh", "waiting"}
           \/ /\ pc[Loop] \in {"load", "consume", "delete", "insert"}
              /\ pc'[Loop] \in {"load", "consume", "delete", "insert"}
    PROVE  RoundOpen'
BY DEF RoundOpen, ReorgIds

LEMMA RoundOpenStep ==
    ASSUME TypeInv, RoundOpen, [Next]_vars
    PROVE  RoundOpen'
<1> USE DEF TypeInv
<1>1. ASSUME NEW c \in ChainIds, ReorgChain(c) \/ PruneStateVersions(c)  PROVE RoundOpen'
  <2>1. reorged_blocks \subseteq reorged_blocks' /\ UNCHANGED <<handled_reorged_blocks, pc, loop>>
    BY <1>1 DEF ReorgChain, PruneStateVersions, tables
  <2> QED BY <2>1, RoundOpenKept DEF loop
<1>2. CASE Crash
  <2>1. /\ earliest' = {} /\ backtracking' = {} /\ pc'[Loop] = "load"
        /\ UNCHANGED <<handled_reorged_blocks, reorged_blocks>>
    BY <1>2, Constants DEF Crash, ingester, tables
  <2> QED BY <2>1 DEF RoundOpen, ReorgIds
<1>3. ASSUME NEW c \in ChainIds, HandleEvents(c)  PROVE RoundOpen'
  <2>1. /\ UNCHANGED <<ingester, handled_reorged_blocks, loop>> /\ pc'[Loop] = pc[Loop]
    BY <1>3, SubtaskStepKeeps, Constants DEF IsKept
  <2> QED BY <2>1, RoundOpenKept DEF ingester, loop
<1>4. CASE LoadReorgedBlocks
  <2>1. /\ pc[Loop] = "load" /\ UNCHANGED <<reorged_blocks, handled_reorged_blocks>>
        /\ pc'[Loop] \in {"consume", "backtrack"}
        /\ \/ pc'[Loop] = "consume" /\ UNCHANGED loop
           \/ /\ UnhandledReorgedBlocks # {}
              /\ earliest' \in OnlyEarliestPerChain(UnhandledReorgedBlocks)
              /\ pc'[Loop] = "backtrack"
    BY <1>4, Constants DEF LoadReorgedBlocks, ingester, tables, Put, Types, ExecutionTypes
  <2>2. CASE UNCHANGED loop /\ pc'[Loop] = "consume"
    BY <2>1, <2>2, RoundOpenKept DEF loop
  <2>3. CASE /\ UnhandledReorgedBlocks # {} /\ pc'[Loop] = "backtrack"
             /\ earliest' \in OnlyEarliestPerChain(UnhandledReorgedBlocks)
    <3>1. earliest' \subseteq UnhandledReorgedBlocks
      BY <2>3 DEF OnlyEarliestPerChain
    <3>2. earliest' # {}
      <4>1. PICK r \in UnhandledReorgedBlocks : TRUE
        BY <2>3
      <4>2. \E s \in earliest' : s.chain_id = r.chain_id
        BY <2>3, <4>1 DEF OnlyEarliestPerChain
      <4> QED BY <4>2
    <3> QED BY <2>1, <2>3, <3>1, <3>2 DEF RoundOpen, ReorgIds, UnhandledReorgedBlocks
  <2> QED BY <2>1, <2>2, <2>3
<1>5. CASE BacktrackStates
  <2>1. /\ pc[Loop] = "backtrack" /\ pc'[Loop] \in {"dead", "latest"}
        /\ backtracking' \subseteq backtracking
        /\ UNCHANGED <<reorged_blocks, handled_reorged_blocks, earliest>>
    BY <1>5, PanicEffect, Constants DEF BacktrackStates, ingester, tables, Put, Types, ExecutionTypes
  <2> QED BY <2>1, RoundOpenKept
<1>6. CASE GetLatestVersions
  <2>1. /\ pc[Loop] = "latest" /\ pc'[Loop] \in {"backtrack", "refresh"}
        /\ UNCHANGED <<reorged_blocks, handled_reorged_blocks, earliest, backtracking>>
    BY <1>6, Constants DEF GetLatestVersions, ingester, tables, Put, Types, ExecutionTypes
  <2> QED BY <2>1, RoundOpenKept
<1>7. CASE RefreshView(Loop) \/ ResumeRefresh(Loop)
  <2>1. /\ pc[Loop] \in {"refresh", "waiting"} /\ pc'[Loop] \in {"backtrack", "refresh", "waiting"}
        /\ UNCHANGED <<reorged_blocks, handled_reorged_blocks, loop>>
    BY <1>7, Constants DEF RefreshView, ResumeRefresh, FinishRefresh, AfterRefresh, ingester, tables,
       Put, Types, ExecutionTypes
  <2> QED BY <2>1, RoundOpenKept DEF loop
<1>8. CASE CommitReorg
  <2>1. /\ backtracking' = {} /\ earliest' = {} /\ pc'[Loop] = "consume"
        /\ handled_reorged_blocks' = handled_reorged_blocks \cup {b.id : b \in earliest}
        /\ UNCHANGED reorged_blocks
    BY <1>8, Constants DEF CommitReorg, ingester, Put, Types, ExecutionTypes
  <2> QED BY <2>1 DEF RoundOpen, ReorgIds
<1>9. CASE ConsumeDeferred \/ DeleteWithoutTxn \/ CreateWithoutTxn \/ EndRound
  <2>1. /\ pc[Loop] \in {"consume", "delete", "insert"}
        /\ pc'[Loop] \in {"load", "consume", "delete", "insert", "dead"}
        /\ UNCHANGED <<reorged_blocks, handled_reorged_blocks, loop>>
    BY <1>9, PanicEffect, Constants DEF ConsumeDeferred, DeleteWithoutTxn, CreateWithoutTxn, EndRound,
       ingester, tables, Put, Types, ExecutionTypes
  <2> QED BY <2>1, RoundOpenKept DEF loop
<1>10. CASE AbortDeadlocked
  <2>1. PICK t \in Tasks : Panic(t)
    BY <1>10 DEF AbortDeadlocked
  <2>2. /\ pc'[Loop] = pc[Loop] \/ pc'[Loop] = "dead"
        /\ UNCHANGED <<reorged_blocks, handled_reorged_blocks, loop>>
    BY <1>10, <2>1, PanicEffect, Constants DEF AbortDeadlocked, ingester, tables, Types, IsKept
  <2> QED BY <2>2, RoundOpenKept DEF loop
<1>11. CASE UNCHANGED vars
  BY <1>11, RoundOpenKept DEF vars, ingester, tables, loop
<1> QED BY <1>1, <1>2, <1>3, <1>4, <1>5, <1>6, <1>7, <1>8, <1>9, <1>10, <1>11
         DEF Next, HandleReorgsAndDeferred

LEMMA ContainedBefore ==
    ASSUME [Next]_vars, Contained'
    PROVE  Contained
BY HandledStep DEF Contained, CommitReorg, ChainStatesApart

\* An updated version is of a state of its chain, and of its contract if it is a
\* contract state.
LEMMA UpdatedState ==
    ASSUME StayInv, Contained, NEW c \in ChainIds, pc[c] = "mutate",
           KindOf[event(c).table] # "MultiChainState",
           Cardinality(Complete(c, held[c], event(c))) = 1,
           NEW state \in Complete(c, held[c], event(c))
    PROVE  /\ state \in ViewsInUse /\ state \in TypedViews /\ event(c) \in Events
           /\ NextVersion(state, event(c)).view.group = state.group
           /\ NextVersion(state, event(c)).view.event = event(c)
           /\ event(c).row.chain_id = c
           /\ IsSameState(NextVersion(state, event(c)).view, state)
<1> USE DEF StayInv, TypeInv
<1> DEFINE e == event(c)
           next == NextVersion(state, event(c)).view
           complete == Complete(c, held[c], e)
<1>1. /\ at[c] <= Len(batch[c]) /\ held[c] # None
      /\ held[c].table = e.table /\ held[c].key = e.key
  BY DEF Control, ControlOfSubtask
<1>2. e \in Events /\ e.row.chain_id = c
  BY <1>1, EventAtHand
<1>3. state \in ViewsInUse /\ state \in TypedViews
  BY VisibleInUse, ViewsInUseTyped, Constants DEF Complete
<1>4. state.table = e.table /\ state.key = e.key
  BY <1>1 DEF Complete
<1>5. /\ next.table = state.table /\ next.key = state.key /\ next.group = state.group
      /\ next.event = e
  BY <1>2, <1>3, NextVersionOfState
<1>6. state.event \in Events /\ state.event.table = state.table /\ state.event.key = state.key
  BY <1>3, ViewFields DEF InUse
<1>7. KindOf[state.table] = "ContractState" => state.event.row = e.row
  <2> SUFFICES ASSUME KindOf[state.table] = "ContractState"  PROVE state.event.row = e.row
    OBVIOUS
  <2>1. state.event.row.chain_id = e.row.chain_id /\ state.event.row.address = e.row.address
    BY DEF Complete, IsOfContract
  <2> QED BY <1>2, <1>6, <2>1, Constants, UniqueRowsAssumption
<1>8. state.event.row.chain_id = c
  <2>1. CASE KindOf[state.table] = "ContractState"
    BY <1>2, <1>7, <2>1
  <2>2. CASE KindOf[state.table] = "ChainState" /\ ChainStatesApart
    BY <1>2, <1>4, <1>6, <2>2 DEF ChainStatesApart
  <2>3. CASE KindOf[state.table] = "ChainState" /\ handled_reorged_blocks = {}
    <3>1. held[c] \in VisibleViews(c) /\ IsInContext(held[c], e)
      BY <1>1, <1>4, <2>3 DEF HeldStillThere, IsShared
    <3>2. held[c].event.row.chain_id = c
      BY <1>2, <1>4, <2>3, <3>1 DEF IsInContext, IsOfChain
    <3>3. held[c] \in complete
      BY <1>1, <1>4, <2>3, <3>1 DEF Complete
    <3>4. held[c] = state
      <4>1. IsFiniteSet(complete)
        <5>1. complete \in SUBSET ViewsInUse
          BY VisibleInUse, Constants DEF Complete
        <5> HIDE DEF complete
        <5> QED BY <5>1, FS_Subset DEF InUse
      <4>2. complete # {} /\ Cardinality(complete) = 1
        BY <3>3
      <4>3. \E x : complete = {x}
        <5> HIDE DEF complete
        <5> QED BY <4>1, <4>2, FS_Singleton
      <4> QED BY <3>3, <4>3
    <3> QED BY <3>2, <3>4
  <2>4. KindOf[state.table] \in {"ContractState", "ChainState", "MultiChainState"}
    BY <1>3, ViewFields, StatesAssumption
  <2> QED BY <1>4, <2>1, <2>2, <2>3, <2>4 DEF Contained
<1> QED BY <1>2, <1>3, <1>5, <1>7, <1>8 DEF IsSameState

\* A new view is of a group that nothing in use has, or of the state of its group.
LEMMA ArrivalState ==
    ASSUME StayInv, Contained, NEW v, Arrives(v)
    PROVE  \/ v.group \notin GroupsInUse
           \/ \E w \in ViewsInUse : v.group = w.group /\ IsSameState(v, w)
<1> USE DEF StayInv, TypeInv
<1>1. ASSUME NEW c \in ChainIds, pc[c] = "handle", at[c] <= Len(batch[c]),
             v = CreatedVersion(event(c)).view
      PROVE  v.group \notin GroupsInUse
  <2>1. event(c) \in Events /\ NewGroup \in Nat /\ NewGroup \notin GroupsInUse
    BY <1>1, EventAtHand, NewGroupIsFresh
  <2>2. v.group = NewGroup
    BY <1>1, <2>1, CreatedVersionOfEvent
  <2> QED BY <2>1, <2>2
<1>2. ASSUME IsUpdated(v)
      PROVE  \E w \in ViewsInUse : v.group = w.group /\ IsSameState(v, w)
  BY <1>2, UpdatedState DEF IsUpdated
<1>3. ASSUME IsOfMutation(v)
      PROVE  \E w \in ViewsInUse : v.group = w.group /\ IsSameState(v, w)
  <2>1. /\ deferred # <<>> /\ v = NextVersion(Mutation.state, Mutation.event).view
        /\ Mutation.state \in TypedViews /\ Mutation.event \in Events
        /\ KindOf[Mutation.state.table] = "MultiChainState"
        /\ 1 \in DOMAIN deferred /\ Mutation = deferred[1]
    BY <1>3, MutationFields DEF IsOfMutation, DeferredVersion
  <2>2. Mutation.state \in ViewsInUse
    BY <2>1, InUseByParts DEF InUseParts
  <2> HIDE DEF Mutation
  <2>3. v.table = Mutation.state.table /\ v.key = Mutation.state.key /\ v.group = Mutation.state.group
    BY <2>1, NextVersionOfState
  <2>4. IsSameState(v, Mutation.state)
    BY <2>1, <2>3 DEF IsSameState, IsShared
  <2> QED BY <2>2, <2>3, <2>4
<1> QED BY <1>1, <1>2, <1>3 DEF Arrives, IsCreated

LEMMA SameStateIsEquivalence ==
    /\ \A v, w : IsSameState(v, w) => IsSameState(w, v)
    /\ \A u, v, w : IsSameState(u, v) /\ IsSameState(v, w) => IsSameState(u, w)
    /\ \A v : IsSameState(v, v)
BY DEF IsSameState, IsShared

LEMMA OneStateStep ==
    ASSUME StayInv, Contained, [Next]_vars
    PROVE  OneStatePerGroup'
<1>1. OneStatePerGroup /\ TypeInv
  BY DEF StayInv
<1>2. CASE ViewsInUse' \subseteq ViewsInUse
  BY <1>1, <1>2 DEF OneStatePerGroup, IsSameState, IsShared
<1>3. ASSUME NEW v, Arrives(v), ViewsInUse' \subseteq ViewsInUse \cup {v}
      PROVE  OneStatePerGroup'
  <2>1. ASSUME NEW w \in ViewsInUse, w.group = v.group
        PROVE  IsSameState(v, w)
    <3>1. w.group \in GroupsInUse
      BY DEF GroupsInUse
    <3>2. PICK x \in ViewsInUse : v.group = x.group /\ IsSameState(v, x)
      BY <1>3, <2>1, <3>1, ArrivalState
    <3>3. IsSameState(x, w)
      BY <1>1, <2>1, <3>2 DEF OneStatePerGroup
    <3> QED BY <3>2, <3>3, SameStateIsEquivalence
  <2>2. \A x, w \in ViewsInUse \cup {v} : x.group = w.group => IsSameState(x, w)
    BY <1>1, <2>1, SameStateIsEquivalence DEF OneStatePerGroup
  <2>3. \A x, w \in ViewsInUse' : x.group = w.group => IsSameState(x, w)
    BY <1>3, <2>2
  <2> QED BY <2>3 DEF OneStatePerGroup, IsSameState, IsShared
<1> QED BY <1>1, <1>2, <1>3, StepInUse

OwnTransaction(c) ==
    /\ \A v \in txn[c].inserted \cup txn[c].deleted : IsShared(v) \/ v.event.row.chain_id = c
    /\ \A i \in 1..Len(refreshing[c]) :
          IsShared(refreshing[c][i].view) \/ refreshing[c][i].view.event.row.chain_id = c

\* The rows a refresh deletes and inserts are of the state of the version refreshed.
LEMMA RefreshedRows ==
    ASSUME TypeInv, OneStatePerGroup, NEW t \in Tasks, RefreshView(t) \/ ResumeRefresh(t)
    PROVE  \/ UNCHANGED <<txn, refreshing>> /\ pc'[t] = "waiting"
           \/ /\ refreshing[t] # <<>> /\ Head(refreshing[t]) = refreshing[t][1] /\ 1 \in 1..Len(refreshing[t])
              /\ refreshing'[t] = Tail(refreshing[t])
              /\ \A i \in 1..Len(Tail(refreshing[t])) :
                    i + 1 \in 1..Len(refreshing[t]) /\ Tail(refreshing[t])[i] = refreshing[t][i + 1]
              /\ txn'[t].dropped = txn[t].dropped
              /\ txn'[t].inserted \subseteq txn[t].inserted \cup {Head(refreshing[t]).view}
              /\ \A v \in txn'[t].deleted : \/ v \in txn[t].deleted
                                            \/ v \in ViewsInUse /\ IsSameState(v, Head(refreshing[t]).view)
<1> USE DEF TypeInv
<1>1. refreshing[t] # <<>> /\ refreshing[t] \in Seq(TypedVersions)
  BY TxnFields DEF RefreshView, ResumeRefresh, Types, Control, ControlOfTask
<1> DEFINE seen == {v \in VisibleViews(t) : v.group = Head(refreshing[t]).view.group}
<1>2. seen \in SUBSET TypedViews /\ targets[t] \in SUBSET TypedViews
  BY VisibleTyped, TxnFields DEF Types
<1>3. \A v \in seen \cup targets[t] : v.group = Head(refreshing[t]).view.group
  BY DEF Control, ControlOfTask
<1>4. /\ Head(refreshing[t]) = refreshing[t][1] /\ 1 \in 1..Len(refreshing[t])
      /\ Head(refreshing[t]) \in TypedVersions /\ Head(refreshing[t]) \in ToSet(refreshing[t])
      /\ \A i \in 1..Len(Tail(refreshing[t])) :
            i + 1 \in 1..Len(refreshing[t]) /\ Tail(refreshing[t])[i] = refreshing[t][i + 1]
  BY <1>1, HeadTailProperties, EmptyByLength DEF ToSet
<1>5. Head(refreshing[t]).view \in ViewsInUse
  BY <1>4, KeptInUse
<1>6. ASSUME NEW found \in SUBSET TypedViews, FinishRefresh(t, found),
             \A v \in found : v.group = Head(refreshing[t]).view.group
      PROVE  /\ refreshing'[t] = Tail(refreshing[t])
             /\ txn'[t].dropped = txn[t].dropped
             /\ txn'[t].inserted \subseteq txn[t].inserted \cup {Head(refreshing[t]).view}
             /\ \A v \in txn'[t].deleted : \/ v \in txn[t].deleted
                                           \/ v \in ViewsInUse /\ IsSameState(v, Head(refreshing[t]).view)
  <2>1. /\ refreshing'[t] = Tail(refreshing[t])
        /\ txn'[t].dropped = txn[t].dropped
        /\ txn'[t].inserted = (txn[t].inserted \ found) \cup NewViews(Head(refreshing[t]))
        /\ txn'[t].deleted = txn[t].deleted \cup (found \cap views)
    BY <1>1, <1>6, FinishRefreshEffect DEF Types
  <2>2. NewViews(Head(refreshing[t])) \subseteq {Head(refreshing[t]).view}
    BY <1>4, NewViewsOfVersion
  <2>3. \A v \in found \cap views : v \in ViewsInUse
    BY InUseByParts DEF InUseParts, ViewsOfTables
  <2>4. \A v \in found \cap views : IsSameState(v, Head(refreshing[t]).view)
    BY <1>5, <1>6, <2>3 DEF OneStatePerGroup
  <2> QED BY <2>1, <2>2, <2>3, <2>4
<1>7. CASE UNCHANGED <<txn, refreshing>> /\ pc' = Put(pc, t, "waiting")
  BY <1>7 DEF Put, Types, ExecutionTypes
<1>8. CASE FinishRefresh(t, seen)
  BY <1>1, <1>2, <1>3, <1>4, <1>6, <1>8
<1>9. CASE FinishRefresh(t, targets[t])
  BY <1>1, <1>2, <1>3, <1>4, <1>6, <1>9
<1> QED BY <1>7, <1>8, <1>9 DEF RefreshView, ResumeRefresh

LEMMA OwnTransactionsStep ==
    ASSUME StayInv, Contained, [Next]_vars
    PROVE  OwnTransactions'
<1> USE DEF StayInv, TypeInv
<1>1. OneStatePerGroup /\ \A c \in ChainIds : OwnTransaction(c)
  BY DEF OwnTransactions, OwnTransaction
<1>2. ASSUME NEW c \in ChainIds, IsKept(c)  PROVE OwnTransaction(c)'
  BY <1>1, <1>2 DEF OwnTransaction, IsKept, IsShared
<1>3. ASSUME NEW c \in ChainIds, txn'[c] = EmptyTxn, refreshing'[c] = <<>>  PROVE OwnTransaction(c)'
  BY <1>3, EmptyTxnFields DEF OwnTransaction
<1>4. ASSUME NEW c \in ChainIds, HandleEvents(c)  PROVE OwnTransaction(c)'
  <2>1. c \in Tasks
    BY Constants
  <2>2. CASE UNCHANGED <<txn, refreshing>>
    BY <1>1, <2>2 DEF OwnTransaction, IsShared
  <2>3. ASSUME NEW version \in TypedVersions, AppendVersion(c, version), version.view.event.row.chain_id = c
        PROVE  OwnTransaction(c)'
    <3>1. CASE Panic(c)
      BY <1>3, <2>1, <3>1, PanicEffect DEF Types
    <3>2. CASE ~ Panic(c)
      <4>1. /\ refreshing'[c] = <<version>>
            /\ txn'[c].inserted = txn[c].inserted /\ txn'[c].deleted = txn[c].deleted
        BY <2>1, <2>3, <3>2, AppendVersionEffect DEF Types
      <4>2. \A i \in 1..Len(refreshing'[c]) : refreshing'[c][i] = version
        BY <4>1
      <4> QED BY <1>1, <2>3, <4>1, <4>2 DEF OwnTransaction, IsShared
    <3> QED BY <3>1, <3>2
  <2>4. CASE ReadOne(c)
    <3>1. CASE AppendVersion(c, CreatedVersion(event(c)))
      <4>1. event(c) \in Events /\ event(c).row.chain_id = c
        BY <2>4, EventAtHand DEF ReadOne
      <4>2. /\ CreatedVersion(event(c)) \in TypedVersions
            /\ CreatedVersion(event(c)).view.event = event(c)
        BY <4>1, NewGroupIsFresh, CreatedVersionOfEvent
      <4> QED BY <2>3, <3>1, <4>1, <4>2
    <3> QED BY <2>2, <2>4, <3>1 DEF ReadOne, execution
  <2>5. CASE Mutate(c)
    <3>1. CASE Panic(c)
      BY <1>3, <2>1, <3>1, PanicEffect DEF Types
    <3>2. CASE /\ Cardinality(Complete(c, held[c], event(c))) = 1
               /\ KindOf[event(c).table] # "MultiChainState"
               /\ \E state \in Complete(c, held[c], event(c)) : AppendVersion(c, NextVersion(state, event(c)))
      <4>1. PICK state \in Complete(c, held[c], event(c)) : AppendVersion(c, NextVersion(state, event(c)))
        BY <3>2
      <4>2. /\ state \in TypedViews /\ event(c) \in Events
            /\ NextVersion(state, event(c)).view.event = event(c)
            /\ event(c).row.chain_id = c
        BY <2>5, <3>2, <4>1, UpdatedState DEF Mutate
      <4>3. NextVersion(state, event(c)) \in TypedVersions
        BY <4>2, NextVersionOfState
      <4> QED BY <2>3, <4>1, <4>2, <4>3
    <3> QED BY <2>2, <2>5, <3>1, <3>2 DEF Mutate, execution
  <2>6. CASE RefreshView(c) \/ ResumeRefresh(c)
    <3>1. CASE UNCHANGED <<txn, refreshing>>
      BY <2>2, <3>1
    <3>2. CASE ~ UNCHANGED <<txn, refreshing>>
      <4> DEFINE first == Head(refreshing[c]).view
      <4>1. /\ first = refreshing[c][1].view /\ 1 \in 1..Len(refreshing[c])
            /\ refreshing'[c] = Tail(refreshing[c])
            /\ \A i \in 1..Len(Tail(refreshing[c])) :
                  i + 1 \in 1..Len(refreshing[c]) /\ Tail(refreshing[c])[i] = refreshing[c][i + 1]
            /\ txn'[c].inserted \subseteq txn[c].inserted \cup {first}
            /\ \A v \in txn'[c].deleted : v \in txn[c].deleted \/ IsSameState(v, first)
        BY <1>1, <2>1, <2>6, <3>2, RefreshedRows
      <4>2. IsShared(first) \/ first.event.row.chain_id = c
        BY <1>1, <4>1 DEF OwnTransaction
      <4> HIDE DEF first
      <4>3. \A v : IsSameState(v, first) => IsShared(v) \/ v.event.row.chain_id = c
        BY <4>2 DEF IsSameState, IsShared
      <4>4. \A v \in txn'[c].inserted \cup txn'[c].deleted : IsShared(v) \/ v.event.row.chain_id = c
        BY <1>1, <4>1, <4>2, <4>3 DEF OwnTransaction
      <4>5. \A i \in 1..Len(refreshing'[c]) :
              IsShared(refreshing'[c][i].view) \/ refreshing'[c][i].view.event.row.chain_id = c
        BY <1>1, <4>1 DEF OwnTransaction
      <4> QED BY <4>4, <4>5 DEF OwnTransaction, IsShared
    <3> QED BY <3>1, <3>2
  <2>7. CASE CommitTransaction(c)
    <3>1. Commit(c) /\ pc' = Put(pc, c, "stream") /\ UNCHANGED refreshing /\ "stream" \in PcValues
      BY <2>7 DEF CommitTransaction, PcValues
    <3>2. txn'[c] = EmptyTxn
      BY <2>1, <3>1, CommitEffect DEF Types
    <3> QED BY <1>1, <3>1, <3>2, EmptyTxnFields DEF OwnTransaction, IsShared
  <2>8. CASE StreamContractAddresses(c) \/ BeginTransaction(c) \/ AddDeferred(c)
    BY <2>2, <2>8 DEF StreamContractAddresses, BeginTransaction, AddDeferred, execution
  <2> QED BY <1>4, <2>4, <2>5, <2>6, <2>7, <2>8 DEF HandleEvents
<1>5. ASSUME NEW c \in ChainIds  PROVE OwnTransaction(c)'
  <2>1. CASE (\E d \in ChainIds : ReorgChain(d) \/ PruneStateVersions(d)) \/ UNCHANGED vars
    <3>1. UNCHANGED <<txn, refreshing>>
      BY <2>1 DEF ReorgChain, PruneStateVersions, vars, execution
    <3> QED BY <1>1, <3>1 DEF OwnTransaction, IsShared
  <2>2. CASE Crash
    BY <1>3, <2>2, Constants DEF Crash
  <2>3. ASSUME NEW d \in ChainIds, HandleEvents(d)  PROVE OwnTransaction(c)'
    BY <1>2, <1>4, <2>3, SubtaskStepKeeps, Constants
  <2>4. CASE HandleReorgsAndDeferred
    BY <1>2, <2>4, LoopStepKeeps, Constants
  <2>5. CASE AbortDeadlocked
    <3>1. PICK t \in Tasks : Panic(t)
      BY <2>5 DEF AbortDeadlocked
    <3> QED BY <1>2, <1>3, <3>1, PanicEffect, Constants DEF Types
  <2> QED BY <2>1, <2>2, <2>3, <2>4, <2>5 DEF Next
<1> QED BY <1>5 DEF OwnTransactions, OwnTransaction

LEMMA SameStateOfEarliest ==
    ASSUME NEW v, NEW w, IsSameState(v, w), IsOfEarliest(w)
    PROVE  IsOfEarliest(v)
BY DEF IsSameState, IsOfEarliest, IsShared

\* The loop has nothing in hand outside its round.
LEMMA LoopIdleStays ==
    ASSUME txn'[Loop] = EmptyTxn, refreshing'[Loop] = <<>>, groups' = {}
    PROVE  LoopStaysOnChain'
BY EmptyTxnFields DEF LoopStaysOnChain

\* It keeps to the chains of the round whatever the other tasks bring into use.
LEMMA OthersKeepLoop ==
    ASSUME StayInv, Contained, LoopStaysOnChain, UNCHANGED <<earliest, groups>>,
           txn'[Loop] = txn[Loop], refreshing'[Loop] = refreshing[Loop], [Next]_vars
    PROVE  LoopStaysOnChain'
<1>1. TypeInv /\ OneStatePerGroup
  BY DEF StayInv
<1>2. \A v : IsOfEarliest(v)' <=> IsOfEarliest(v)
  BY DEF IsOfEarliest, IsShared
<1>3. ASSUME NEW v \in ViewsInUse', v.group \in groups
      PROVE  IsOfEarliest(v)
  <2>1. CASE v \in ViewsInUse
    BY <1>3, <2>1 DEF LoopStaysOnChain
  <2>2. CASE v \notin ViewsInUse
    <3>1. Arrives(v)
      BY <1>1, <2>2, StepInUse
    <3>2. v.group \in GroupsInUse
      BY <1>3 DEF GroupsInUse
    <3>3. PICK w \in ViewsInUse : v.group = w.group /\ IsSameState(v, w)
      BY <3>1, <3>2, ArrivalState
    <3>4. IsOfEarliest(w)
      BY <1>3, <3>3 DEF LoopStaysOnChain
    <3> QED BY <3>3, <3>4, SameStateOfEarliest
  <2> QED BY <2>1, <2>2
<1> QED BY <1>2, <1>3 DEF LoopStaysOnChain

LEMMA LoopStaysStep ==
    ASSUME StayInv, Contained, [Next]_vars
    PROVE  LoopStaysOnChain'
<1> USE DEF StayInv, TypeInv
<1>1. OneStatePerGroup /\ LoopStaysOnChain
  OBVIOUS
<1>2. CASE (\E c \in ChainIds : ReorgChain(c) \/ PruneStateVersions(c)) \/ UNCHANGED vars
  <2>1. UNCHANGED <<txn, refreshing, earliest, groups>>
    BY <1>2 DEF ReorgChain, PruneStateVersions, vars, execution, loop
  <2> QED BY <2>1, OthersKeepLoop
<1>3. CASE Crash
  BY <1>3, LoopIdleStays, Constants DEF Crash
<1>4. ASSUME NEW c \in ChainIds, HandleEvents(c)  PROVE LoopStaysOnChain'
  BY <1>4, OthersKeepLoop, SubtaskStepKeeps, Constants DEF IsKept, loop
<1>5. CASE AbortDeadlocked
  <2>1. PICK t \in Tasks : Panic(t)
    BY <1>5 DEF AbortDeadlocked
  <2>2. UNCHANGED <<earliest, groups>>
    BY <1>5 DEF AbortDeadlocked, loop
  <2>3. CASE t # Loop
    BY <2>1, <2>2, <2>3, OthersKeepLoop, PanicEffect, Constants DEF Types, IsKept
  <2>4. CASE t = Loop
    <3>1. pc[Loop] = "waiting"
      <4>1. PICK waiting \in SUBSET Tasks \ {{}} : \E s, u \in waiting : WaitsFor(u, s) /\ Panic(s)
                 /\ \A r \in waiting : \E q \in waiting : WaitsFor(r, q)
        BY <1>5 DEF AbortDeadlocked
      <4>2. PICK s \in waiting : pc[s] = "waiting" /\ Panic(s)
        BY <4>1 DEF WaitsFor
      <4>3. CASE s = Loop
        BY <4>2, <4>3
      <4>4. CASE s # Loop
        <5>1. s \in Tasks
          BY <4>1, <4>2
        <5>2. pc'[s] = "dead" /\ pc'[s] = pc[s]
          BY <2>1, <2>4, <4>2, <4>4, <5>1, PanicEffect, Constants DEF Types, IsKept
        <5> QED BY <4>2, <5>2
      <4> QED BY <4>3, <4>4
    <3>2. groups = {}
      BY <3>1 DEF Control, ControlOfLoop
    <3> QED BY <2>1, <2>2, <2>4, <3>2, LoopIdleStays, PanicEffect, Constants DEF Types
  <2> QED BY <2>3, <2>4
<1>6. CASE LoadReorgedBlocks
  <2>1. pc[Loop] = "load" /\ UNCHANGED <<txn, refreshing, groups>>
    BY <1>6 DEF LoadReorgedBlocks, execution, loop
  <2>2. ControlOfTask(Loop) /\ ControlOfLoop
    BY Constants DEF Control
  <2>3. txn[Loop] = EmptyTxn /\ refreshing[Loop] = <<>> /\ groups = {}
    BY <2>1, <2>2 DEF ControlOfTask, ControlOfLoop
  <2> QED BY <2>1, <2>3, LoopIdleStays
<1>7. CASE BacktrackStates
  <2>1. PICK job \in backtracking :
        LET found == {v \in VersionsFrom(job[1].chain_id, job[1].block_number) : v.view.table = job[2]}
        IN  /\ backtracking' = backtracking \ {job}
            /\ \/ Panic(Loop) /\ UNCHANGED groups
               \/ /\ txn' = [txn EXCEPT ![Loop].dropped = @ \cup found]
                  /\ groups' = {v.view.group : v \in found}
                  /\ UNCHANGED <<targets, refreshing>>
    BY <1>7 DEF BacktrackStates
  <2> DEFINE found == {v \in VersionsFrom(job[1].chain_id, job[1].block_number) : v.view.table = job[2]}
  <2>2. pc[Loop] = "backtrack" /\ UNCHANGED <<versions, views, deferred, held, earliest>>
    BY <1>7 DEF BacktrackStates, tables, subtasks
  <2>3. ControlOfTask(Loop) /\ ControlOfLoop
    BY Constants DEF Control
  <2>4. CASE Panic(Loop) /\ UNCHANGED groups
    <3>1. groups = {}
      BY <2>2, <2>3 DEF ControlOfLoop
    <3> QED BY <2>4, <3>1, LoopIdleStays, PanicEffect, Constants DEF Types
  <2>5. CASE /\ txn' = [txn EXCEPT ![Loop].dropped = @ \cup found]
             /\ groups' = {v.view.group : v \in found}
             /\ UNCHANGED <<targets, refreshing>>
    <3>1. /\ txn'[Loop].dropped = txn[Loop].dropped \cup found
          /\ txn'[Loop].inserted = txn[Loop].inserted /\ txn'[Loop].deleted = txn[Loop].deleted
          /\ refreshing'[Loop] = refreshing[Loop]
      BY <2>5, Constants DEF Types, ExecutionTypes, Txns
    <3>2. job[1] \in earliest
      BY DEF Types, LoopTypes
    <3>3. \A v \in found : /\ v.view.event.row.chain_id = job[1].chain_id
                           /\ v.view.event.block_number >= job[1].block_number
                           /\ v.view \in ViewsInUse /\ v.view.event.block_number \in Nat
      <4>1. \A v \in found : v.view \in ViewsInUse
        BY VisibleInUse, Constants DEF VersionsFrom
      <4>2. \A v \in found : v.view.event.block_number \in Nat
        BY <4>1, ViewsInUseTyped, ViewFields, Constants
      <4> QED BY <4>1, <4>2 DEF VersionsFrom
    <3>4. job[1].block_number \in Nat
      BY <3>2, Constants DEF Types, LoopTypes, ReorgRows
    <3>5. \A v \in found : \E b \in earliest :
             b.chain_id = v.view.event.row.chain_id /\ b.block_number <= v.view.event.block_number
      BY <3>2, <3>3, <3>4
    <3>6. \A v : IsOfEarliest(v)' <=> IsOfEarliest(v)
      BY <2>2 DEF IsOfEarliest, IsShared
    <3>7. ViewsInUse' \subseteq ViewsInUse
      <4>1. \A t \in Tasks : /\ txn'[t].appended = txn[t].appended
                             /\ txn'[t].inserted = txn[t].inserted
        BY <2>5 DEF Types, ExecutionTypes, Txns
      <4>2. \A t \in Tasks : ViewsOfTask(t)' = ViewsOfTask(t)
        BY <2>5, <4>1 DEF ViewsOfTask
      <4>3. \A t \in Tasks : ViewsOfTask(t)' \subseteq ViewsInUse
        BY <4>2, InUseByParts DEF InUseParts
      <4> QED BY <2>2, <4>3, InUseAfter, KeptInUse
    <3>8. \A w \in ViewsInUse' : w.group \in groups' => IsOfEarliest(w)
      <4> SUFFICES ASSUME NEW w \in ViewsInUse', w.group \in groups'  PROVE IsOfEarliest(w)
        OBVIOUS
      <4>1. PICK v \in found : w.group = v.view.group
        BY <2>5
      <4>2. IsSameState(w, v.view)
        BY <1>1, <3>3, <3>7, <4>1 DEF OneStatePerGroup
      <4>3. IsOfEarliest(v.view)
        BY <3>2, <3>3 DEF IsOfEarliest
      <4> QED BY <4>2, <4>3, SameStateOfEarliest
    <3> HIDE DEF found
    <3>9. \A v \in txn'[Loop].dropped : \E b \in earliest' :
             b.chain_id = v.view.event.row.chain_id /\ b.block_number <= v.view.event.block_number
      BY <1>1, <2>2, <3>1, <3>5 DEF LoopStaysOnChain
    <3>10. \A v \in txn'[Loop].deleted \cup txn'[Loop].inserted : IsOfEarliest(v)'
      BY <1>1, <3>1, <3>6 DEF LoopStaysOnChain
    <3>11. \A i \in 1..Len(refreshing'[Loop]) : IsOfEarliest(refreshing'[Loop][i].view)
      BY <1>1, <3>1, <3>6 DEF LoopStaysOnChain
    <3> QED BY <3>6, <3>8, <3>9, <3>10, <3>11 DEF LoopStaysOnChain
  <2> QED BY <2>1, <2>4, <2>5
<1>8. CASE GetLatestVersions
  <2>1. PICK latest \in SUBSET {v \in VisibleVersions(Loop) : IsLatest(v)} :
          /\ \A v, w \in latest : v.view.group = w.view.group => v = w
          /\ \E order \in SetToSeqs(latest) : refreshing' = Put(refreshing, Loop, order)
    BY <1>8 DEF GetLatestVersions
  <2>2. PICK order \in SetToSeqs(latest) : refreshing' = Put(refreshing, Loop, order)
    BY <2>1
  <2>3. UNCHANGED <<txn, earliest>> /\ groups' = {}
    BY <1>8 DEF GetLatestVersions
  <2>4. refreshing'[Loop] = order
    BY <2>2, Constants DEF Put, Types, ExecutionTypes
  <2>5. \A v : IsOfEarliest(v)' <=> IsOfEarliest(v)
    BY <2>3 DEF IsOfEarliest, IsShared
  <2>6. \A v \in latest : IsOfEarliest(v.view)
    <3>1. \A v \in latest : v.view \in ViewsInUse /\ v.view.group \in groups
      BY VisibleInUse, Constants DEF IsLatest
    <3> QED BY <1>1, <3>1 DEF LoopStaysOnChain
  <2>7. order \in Seq(latest)
    <3>1. latest \in SUBSET VisibleVersions(Loop)
      OBVIOUS
    <3> QED BY <2>1, <2>2, <3>1, OrderedVersions
  <2>8. \A i \in 1..Len(refreshing'[Loop]) : IsOfEarliest(refreshing'[Loop][i].view)
    BY <2>4, <2>6, <2>7
  <2>9. \A v \in txn'[Loop].deleted \cup txn'[Loop].inserted : IsOfEarliest(v)'
    BY <1>1, <2>3, <2>5 DEF LoopStaysOnChain
  <2>10. \A v \in txn'[Loop].dropped : \E b \in earliest' :
           b.chain_id = v.view.event.row.chain_id /\ b.block_number <= v.view.event.block_number
    BY <1>1, <2>3 DEF LoopStaysOnChain
  <2> QED BY <2>3, <2>5, <2>8, <2>9, <2>10 DEF LoopStaysOnChain
<1>9. CASE RefreshView(Loop) \/ ResumeRefresh(Loop)
  <2>1. UNCHANGED <<earliest, groups>>
    BY <1>9 DEF RefreshView, ResumeRefresh, loop
  <2>2. CASE UNCHANGED <<txn, refreshing>>
    BY <2>1, <2>2, OthersKeepLoop
  <2>3. CASE ~ UNCHANGED <<txn, refreshing>>
    <3> DEFINE first == Head(refreshing[Loop]).view
    <3>1. /\ first = refreshing[Loop][1].view /\ 1 \in 1..Len(refreshing[Loop])
          /\ refreshing'[Loop] = Tail(refreshing[Loop])
          /\ \A i \in 1..Len(Tail(refreshing[Loop])) :
                i + 1 \in 1..Len(refreshing[Loop]) /\ Tail(refreshing[Loop])[i] = refreshing[Loop][i + 1]
          /\ txn'[Loop].dropped = txn[Loop].dropped
          /\ txn'[Loop].inserted \subseteq txn[Loop].inserted \cup {first}
          /\ \A v \in txn'[Loop].deleted : v \in txn[Loop].deleted \/ IsSameState(v, first)
      BY <1>1, <1>9, <2>3, RefreshedRows, Constants
    <3>2. IsOfEarliest(first)
      BY <1>1, <3>1 DEF LoopStaysOnChain
    <3> HIDE DEF first
    <3>3. \A v : IsOfEarliest(v)' <=> IsOfEarliest(v)
      BY <2>1 DEF IsOfEarliest, IsShared
    <3>4. \A v \in txn'[Loop].deleted \cup txn'[Loop].inserted : IsOfEarliest(v)
      BY <1>1, <3>1, <3>2, SameStateOfEarliest DEF LoopStaysOnChain
    <3>5. \A i \in 1..Len(refreshing'[Loop]) : IsOfEarliest(refreshing'[Loop][i].view)
      BY <1>1, <3>1 DEF LoopStaysOnChain
    <3>6. groups' = {}
      BY <1>9, <2>1 DEF RefreshView, ResumeRefresh, Control, ControlOfLoop
    <3> QED BY <1>1, <2>1, <3>1, <3>3, <3>4, <3>5, <3>6 DEF LoopStaysOnChain
  <2> QED BY <2>2, <2>3
<1>10. CASE CommitReorg
  <2>1. /\ pc[Loop] = "backtrack" /\ Commit(Loop) /\ pc' = Put(pc, Loop, "consume")
        /\ UNCHANGED <<refreshing, groups>> /\ "consume" \in PcValues
    BY <1>10 DEF CommitReorg, PcValues
  <2>2. ControlOfTask(Loop) /\ ControlOfLoop
    BY Constants DEF Control
  <2>3. refreshing[Loop] = <<>> /\ groups = {}
    BY <2>1, <2>2 DEF ControlOfTask, ControlOfLoop
  <2>4. txn'[Loop] = EmptyTxn
    BY <2>1, CommitEffect, Constants DEF Types
  <2> QED BY <2>1, <2>3, <2>4, LoopIdleStays
<1>11. CASE ConsumeDeferred \/ DeleteWithoutTxn \/ CreateWithoutTxn \/ EndRound
  <2>1. pc[Loop] \in {"consume", "delete", "insert"} /\ UNCHANGED loop
    BY <1>11 DEF ConsumeDeferred, DeleteWithoutTxn, CreateWithoutTxn, EndRound
  <2>2. ControlOfTask(Loop) /\ ControlOfLoop
    BY Constants DEF Control
  <2>3. txn[Loop] = EmptyTxn /\ refreshing[Loop] = <<>> /\ groups = {}
    BY <2>1, <2>2 DEF ControlOfTask, ControlOfLoop
  <2>4. UNCHANGED execution \/ Panic(Loop)
    BY <1>11 DEF ConsumeDeferred, DeleteWithoutTxn, CreateWithoutTxn, EndRound
  <2>5. txn'[Loop] = EmptyTxn /\ refreshing'[Loop] = <<>>
    BY <2>3, <2>4, PanicEffect, Constants DEF execution, Types
  <2> QED BY <2>1, <2>3, <2>5, LoopIdleStays DEF loop
<1> QED BY <1>2, <1>3, <1>4, <1>5, <1>6, <1>7, <1>8, <1>9, <1>10, <1>11
         DEF Next, HandleReorgsAndDeferred

LEMMA ViewsStep ==
    ASSUME [Next]_vars
    PROVE  \/ views' = views
           \/ \E d \in ChainIds : CommitTransaction(d)
           \/ CommitReorg \/ DeleteWithoutTxn \/ CreateWithoutTxn
BY DEF Next, vars, tables, ReorgChain, PruneStateVersions, Crash, HandleEvents,
     StreamContractAddresses, BeginTransaction, ReadOne, Mutate, AddDeferred, RefreshView,
     ResumeRefresh, HandleReorgsAndDeferred, LoadReorgedBlocks,
     BacktrackStates, GetLatestVersions, ConsumeDeferred, EndRound, AbortDeadlocked

\* A subtask comes to a mutation by reading the state, and stays there until it goes on.
LEMMA MutateReached ==
    ASSUME TypeInv, [Next]_vars, NEW c \in ChainIds, pc'[c] = "mutate"
    PROVE  \/ ReadOne(c) /\ \E state \in ReadMany(c, event(c)) : held' = Put(held, c, state)
                         /\ UNCHANGED <<views, txn, batch, at>>
           \/ pc[c] = "mutate" /\ IsKept(c) /\ IsKeptSubtask(c)
<1> USE DEF TypeInv
<1>1. c \in Tasks /\ c # Loop
  BY Constants
<1>2. CASE (\E d \in ChainIds : ReorgChain(d) \/ PruneStateVersions(d)) \/ UNCHANGED vars
  BY <1>2 DEF ReorgChain, PruneStateVersions, vars, execution, subtasks, IsKept, IsKeptSubtask
<1>3. CASE Crash
  BY <1>1, <1>3 DEF Crash
<1>4. ASSUME NEW d \in ChainIds \ {c}, HandleEvents(d)
      PROVE  pc[c] = "mutate" /\ IsKept(c) /\ IsKeptSubtask(c)
  BY <1>1, <1>4, SubtaskStepKeeps DEF IsKept
<1>5. CASE HandleReorgsAndDeferred
  BY <1>1, <1>5, LoopStepKeeps DEF IsKept, IsKeptSubtask, subtasks
<1>6. CASE AbortDeadlocked
  <2>1. PICK t \in Tasks : Panic(t)
    BY <1>6 DEF AbortDeadlocked
  <2>2. UNCHANGED subtasks
    BY <1>6 DEF AbortDeadlocked
  <2> QED BY <1>1, <2>1, <2>2, PanicEffect DEF Types, IsKept, IsKeptSubtask, subtasks
<1>7. CASE HandleEvents(c)
  <2>1. CASE ReadOne(c)
    <3>1. pc'[c] \in {"refresh", "dead"} \/ ~ AppendVersion(c, CreatedVersion(event(c)))
      <4>1. \A p : pc' = Put(pc, c, p) => pc'[c] = p
        BY <1>1 DEF Put, Types, ExecutionTypes
      <4> QED BY <4>1 DEF AppendVersion, Panic
    <3>2. pc[c] = "handle"
      BY <2>1 DEF ReadOne
    <3> QED BY <2>1, <3>1, <3>2 DEF ReadOne, execution, tables
  <2>2. CASE ~ ReadOne(c)
    <3>1. \A p : pc' = Put(pc, c, p) => pc'[c] = p
      BY <1>1 DEF Put, Types, ExecutionTypes
    <3> QED BY <1>1, <1>7, <2>2, <3>1
            DEF HandleEvents, StreamContractAddresses, BeginTransaction, Mutate, AppendVersion, Panic,
                AddDeferred, RefreshView, ResumeRefresh, FinishRefresh, AfterRefresh, CommitTransaction
  <2> QED BY <2>1, <2>2
<1> QED BY <1>2, <1>3, <1>4, <1>5, <1>6, <1>7 DEF Next

LEMMA HeldStep ==
    ASSUME StayInv, [Next]_vars, handled_reorged_blocks' = {}
    PROVE  HeldStillThere'
<1> USE DEF StayInv, TypeInv
<1>1. ~ CommitReorg /\ handled_reorged_blocks = {}
  <2>1. ASSUME CommitReorg  PROVE FALSE
    <3>1. earliest # {} /\ handled_reorged_blocks' = handled_reorged_blocks \cup {b.id : b \in earliest}
      BY <2>1 DEF CommitReorg, RoundOpen
    <3> QED BY <3>1
  <2> QED BY <2>1, HandledStep
<1>2. Contained /\ OneStatePerGroup /\ OwnTransactions /\ HeldStillThere
  BY <1>1 DEF Contained
<1> SUFFICES ASSUME NEW c \in ChainIds, pc'[c] = "mutate", ~ IsShared(held'[c])
             PROVE  held'[c] \in VisibleViews(c)' /\ IsInContext(held[c], event(c))'
  BY DEF HeldStillThere, IsShared
<1>3. CASE ReadOne(c) /\ (\E state \in ReadMany(c, event(c)) : held' = Put(held, c, state))
              /\ UNCHANGED <<views, txn, batch, at>>
  <2>1. PICK state \in ReadMany(c, event(c)) : held' = Put(held, c, state)
    BY <1>3
  <2>2. held'[c] = state
    BY <2>1 DEF Put, Types, SubtaskTypes
  <2>3. state \in VisibleViews(c) /\ IsInContext(state, event(c))
    BY DEF ReadMany
  <2> QED BY <1>3, <2>2, <2>3 DEF VisibleViews, IsInContext, IsOfContract, IsOfChain, event
<1>4. CASE pc[c] = "mutate" /\ IsKept(c) /\ IsKeptSubtask(c)
  <2> DEFINE e == event(c)
             v == held[c]
  <2>1. /\ held'[c] = v /\ event(c)' = e /\ txn'[c] = txn[c] /\ ~ IsShared(v)
    BY <1>4 DEF IsKept, IsKeptSubtask, event, IsShared
  <2>2. v \in VisibleViews(c) /\ IsInContext(v, e)
    BY <1>2, <1>4, <2>1 DEF HeldStillThere
  <2>3. /\ at[c] <= Len(batch[c]) /\ v.table = e.table
        /\ e \in Events /\ e.row.chain_id = c
    BY <1>4, EventAtHand DEF Control, ControlOfSubtask
  <2>4. v.event.row.chain_id = c
    <3>1. KindOf[e.table] \in {"ContractState", "ChainState"}
      BY <2>1, <2>3, StatesAssumption DEF IsShared
    <3> QED BY <2>2, <2>3, <3>1 DEF IsInContext, IsOfContract, IsOfChain
  <2>5. IsInContext(held[c], event(c))'
    BY <2>1, <2>2 DEF IsInContext, IsOfContract, IsOfChain
  <2>6. v \in views => v \in views'
    <3>1. CASE views' = views
      BY <3>1
    <3>2. ASSUME NEW d \in ChainIds, CommitTransaction(d)  PROVE v \in views => v \in views'
      <4>1. views' = (views \ txn[d].deleted) \cup txn[d].inserted
        BY <3>2 DEF CommitTransaction, Commit
      <4>2. d # c
        BY <1>4, <3>2 DEF CommitTransaction
      <4>3. v \notin txn[d].deleted
        BY <1>2, <2>1, <2>4, <4>2 DEF OwnTransactions
      <4> QED BY <4>1, <4>3
    <3>3. CASE DeleteWithoutTxn
      <4>1. deferred # <<>> /\ views' = {w \in views : w.group # Mutation.state.group}
        BY <3>3 DEF DeleteWithoutTxn, Control, ControlOfLoop
      <4>2. /\ Mutation = deferred[1] /\ 1 \in DOMAIN deferred
            /\ KindOf[Mutation.state.table] = "MultiChainState"
        BY <4>1, MutationFields
      <4>3. Mutation.state \in ViewsInUse
        BY <4>2, InUseByParts DEF InUseParts
      <4>4. v \in views => v \in ViewsInUse
        BY InUseByParts DEF InUseParts, ViewsOfTables
      <4>5. v \in views => v.group # Mutation.state.group
        BY <1>2, <2>1, <4>2, <4>3, <4>4 DEF OneStatePerGroup, IsSameState, IsShared
      <4> QED BY <4>1, <4>5
    <3>4. CASE CreateWithoutTxn
      BY <3>4 DEF CreateWithoutTxn
    <3> QED BY <1>1, <3>1, <3>2, <3>3, <3>4, ViewsStep
  <2>7. v \in VisibleViews(c)'
    BY <2>1, <2>2, <2>6 DEF VisibleViews
  <2> QED BY <2>1, <2>5, <2>7
<1> QED BY <1>3, <1>4, MutateReached

LEMMA StayInvIsInvariant == Spec => []StayInv
<1>1. Init => StayInv
  <2> SUFFICES ASSUME Init PROVE StayInv
    OBVIOUS
  <2>1. TypeInv
    BY InitTypeInv
  <2>2. ViewsInUse = {}
    <3>1. /\ ViewsOfTables = {} /\ deferred = <<>> /\ \A c \in ChainIds : held[c] = None
      BY DEF Init, ViewsOfTables
    <3>2. \A t \in Tasks : ViewsOfTask(t) = {}
      BY EmptyTxnFields DEF Init, ViewsOfTask, ToSet
    <3>3. \A v : v \notin ViewsInUse
      BY <3>1, <3>2, InUseByParts DEF InUseParts
    <3> QED BY <3>3
  <2>3. RoundOpen
    BY Constants DEF Init, RoundOpen, ReorgIds
  <2>4. OneStatePerGroup
    BY <2>2 DEF OneStatePerGroup
  <2>5. OwnTransactions
    BY Constants, EmptyTxnFields DEF Init, OwnTransactions
  <2>6. LoopStaysOnChain
    BY <2>2, Constants, EmptyTxnFields DEF Init, LoopStaysOnChain
  <2>7. HeldStillThere
    BY Constants DEF Init, HeldStillThere
  <2> QED BY <2>1, <2>3, <2>4, <2>5, <2>6, <2>7 DEF StayInv
<1>2. StayInv /\ [Next]_vars => StayInv'
  <2> SUFFICES ASSUME StayInv, [Next]_vars PROVE StayInv'
    OBVIOUS
  <2>1. TypeInv'
    BY StepTypes, InUseStep DEF StayInv, TypeInv
  <2>2. RoundOpen'
    BY RoundOpenStep DEF StayInv
  <2>3. Contained' => OneStatePerGroup' /\ OwnTransactions' /\ LoopStaysOnChain'
    BY ContainedBefore, OneStateStep, OwnTransactionsStep, LoopStaysStep
  <2>4. handled_reorged_blocks' = {} => HeldStillThere'
    BY HeldStep
  <2> QED BY <2>1, <2>2, <2>3, <2>4 DEF StayInv
<1> QED BY <1>1, <1>2, PTL DEF Spec

StaysOnChain ==
    pc[Loop] = "backtrack" /\ pc'[Loop] = "consume" =>
        /\ \A v \in versions \ versions' : \E b \in earliest :
              b.chain_id = v.view.event.row.chain_id /\ b.block_number <= v.view.event.block_number
        /\ \A v \in (views \ views') \cup (views' \ views) :
              KindOf[v.table] # "MultiChainState" =>
                  \E b \in earliest : b.chain_id = v.event.row.chain_id

\* Only the commit of a round takes the loop from backtracking to the deferred mutations.
LEMMA OnlyCommitEndsRound ==
    ASSUME TypeInv, [Next]_vars, pc[Loop] = "backtrack", pc'[Loop] = "consume"
    PROVE  CommitReorg
<1> USE DEF TypeInv
<1>1. \A p : pc' = Put(pc, Loop, p) => pc'[Loop] = p
  BY Constants DEF Put, Types, ExecutionTypes
<1>2. ASSUME NEW c \in ChainIds, HandleEvents(c)  PROVE FALSE
  BY <1>2, SubtaskStepKeeps, Constants DEF IsKept
<1>3. CASE AbortDeadlocked
  <2>1. PICK t \in Tasks : Panic(t)
    BY <1>3 DEF AbortDeadlocked
  <2> QED BY <2>1, PanicEffect, Constants DEF Types, IsKept
<1>4. CASE BacktrackStates
  BY <1>1, <1>4 DEF BacktrackStates, Panic
<1> QED BY <1>1, <1>2, <1>3, <1>4, Constants
        DEF Next, vars, ReorgChain, PruneStateVersions, Crash, HandleReorgsAndDeferred, LoadReorgedBlocks,
            GetLatestVersions, RefreshView, ResumeRefresh, ConsumeDeferred, DeleteWithoutTxn,
            CreateWithoutTxn, EndRound

LEMMA OpenRoundIsContained ==
    ASSUME StayInv, pc[Loop] = "backtrack", MaxReorgs <= 1 \/ ChainStatesApart
    PROVE  Contained
<1>1. CASE ChainStatesApart
  BY <1>1 DEF Contained
<1>2. CASE MaxReorgs <= 1 /\ handled_reorged_blocks # {}
  <2>1. PICK r \in earliest : TRUE
    BY DEF StayInv, RoundOpen
  <2>2. \A q \in reorged_blocks : q.id = 1
    <3>1. \A q \in reorged_blocks : q.id \in 1..MaxReorgs
      BY DEF StayInv, TypeInv, Types, TableTypes, ReorgRows
    <3>2. \A i \in 1..MaxReorgs : i = 1
      BY <1>2, Constants
    <3> QED BY <3>1, <3>2
  <2>3. handled_reorged_blocks \subseteq {1}
    BY <2>2 DEF StayInv, RoundOpen, ReorgIds
  <2>4. r.id = 1 /\ r.id \notin handled_reorged_blocks
    BY <2>1, <2>2 DEF StayInv, RoundOpen
  <2> QED BY <1>2, <2>3, <2>4
<1> QED BY <1>1, <1>2 DEF Contained

\* Handling a re-organization takes versions from the chains concerned only, none
\* below the block recorded, and leaves the rows of contract and chain states on the
\* other chains as they are (StateVersions::get, StateViews::refresh).  The hypothesis is
\* the code's limit: StateView::get_complete looks a chain state up without its chain, so
\* after a first re-organization a handler may update the row another chain has for the
\* key, and a second one may then reach across.
THEOREM ReorgStaysOnChain ==
    ASSUME MaxReorgs <= 1 \/ ChainStatesApart
    PROVE  Spec => ReorgsStayOnChain
<1>1. StayInv /\ [Next]_vars => [StaysOnChain]_vars
  <2> SUFFICES ASSUME StayInv, [Next]_vars, pc[Loop] = "backtrack", pc'[Loop] = "consume"
               PROVE  StaysOnChain
    BY DEF StaysOnChain
  <2>1. CommitReorg
    BY OnlyCommitEndsRound DEF StayInv
  <2>2. LoopStaysOnChain
    BY OpenRoundIsContained DEF StayInv
  <2>3. /\ versions' = (versions \ txn[Loop].dropped) \cup txn[Loop].appended
        /\ views' = (views \ txn[Loop].deleted) \cup txn[Loop].inserted
    BY <2>1 DEF CommitReorg, Commit
  <2>4. versions \ versions' \subseteq txn[Loop].dropped
    BY <2>3
  <2>5. (views \ views') \cup (views' \ views) \subseteq txn[Loop].deleted \cup txn[Loop].inserted
    BY <2>3
  <2> QED BY <2>2, <2>4, <2>5 DEF StaysOnChain, LoopStaysOnChain, IsOfEarliest, IsShared
<1> QED BY <1>1, StayInvIsInvariant, PTL DEF Spec, ReorgsStayOnChain, StaysOnChain
=============================================================================
