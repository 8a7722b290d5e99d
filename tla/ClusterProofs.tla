--------------------------- MODULE ClusterProofs ----------------------------
(***************************************************************************)
(* Theorems about Cluster, for every number of nodes, election rate, range *)
(* of blocks, reset counts and crashes: type correctness, that a node is   *)
(* active when it elects, and what a reset interrupted anywhere leaves.    *)
(***************************************************************************)
EXTENDS Cluster, FiniteSetTheorems, SequenceTheorems, TLAPS

-----------------------------------------------------------------------------
(* What a setup has left to do *)

\* What is left of s from its i-th statement on.
From(s, i) == SubSeq(s, i, Len(s))

\* What follows the statements of a reset.
Recording == <<"append_root_state">> \o MigrationStatements
Zeroing == <<"zero_side_effects">> \o Recording
AfterReset == {Recording, Zeroing, ResetStatements \o Zeroing}

Beginning(n, i) == todo[n] = From(SetupStatements, i)
Resetting(n, i, rest) == todo[n] = From(ResetStatements, i) \o rest
Migrating(n, i) == todo[n] = From(MigrationStatements, i)

\* A setup has a suffix of its statements left, and those past the first root state
\* find one.
TodoOK(n) ==
    \/ \E i \in 1..5 : Beginning(n, i) /\ (i >= 4 => root_states # <<>>)
    \/ /\ root_states # <<>>
       /\ \/ \E i \in 1..4, rest \in AfterReset : Resetting(n, i, rest)
          \/ todo[n] = Zeroing
          \/ todo[n] = Recording
          \/ \E i \in 1..5 : Migrating(n, i)

-----------------------------------------------------------------------------
(* The types, strengthened to be inductive *)

Unborn(n) == pc[n] \in {"unborn", "joining"}
Positions == {b \in Nat : b >= StartBlockNumber}
Cursors == [ingest : Positions, handle : Positions, side_effects : 0..MaxBlockNumber + 1]
Loads == [ingest : {0} \cup Blocks, block : {0} \cup Blocks,
          side_effects : 0..MaxBlockNumber + 1, is_open : BOOLEAN]
RootStates == [reset_count : Nat, reset_including_side_effects_count : Nat]
Statements == {"create_root_states", "create_contract_addresses", "default_root_state",
               "prune_root_states", "maybe_reset", "drop_events", "drop_reorged_blocks",
               "restart_cursors", "drop_states", "zero_side_effects", "append_root_state",
               "create_events", "create_reorged_blocks", "create_states",
               "insert_contract_addresses"}

\* Nodes join in the order of their ids, at most one in a second that has passed
\* without them, so no rank exceeds the number of those that joined.
NodesOK ==
    /\ nodes \subseteq Nodes
    /\ active_age \in [Nodes -> 0..MaxAge]
    /\ inserted_at \in [Nodes -> Nat] /\ this_second \in Nat \ {0}
    /\ \A n \in Nodes : inserted_at[n] <= n
    /\ this_second # 1 => \E n \in Nodes : inserted_at[n] = this_second - 1
    /\ \A n \in Nodes : Unborn(n) => n \notin nodes /\ inserted_at[n] = 0
    /\ \A n \in Nodes : pc[n] # "unborn" => \A m \in Nodes : m < n => ~ Unborn(m)

\* A node that elects had its row refreshed when its round began.
RoundsOK ==
    /\ timer \in [Nodes -> 0..ElectionRate]
    /\ \A n \in Nodes : pc[n] \in {"elect", "orchestrate"} => timer[n] <= RoundTime
    /\ \A n \in nodes : pc[n] = "elect" => active_age[n] + timer[n] <= RoundTime

\* There is no block before the first row, and no cursor goes back before the start.
DatabaseOK ==
    /\ tables \subseteq Tables
    /\ root_states \in Seq(RootStates)
    /\ cursors \subseteq Cursors /\ \A c, d \in cursors : c = d
    /\ events \in [Blocks -> 0..2] /\ versions \in [Blocks -> 0..2]
    /\ side_effects \in [Blocks -> Nat]
    /\ cursors = {} => events = NoRows /\ versions = NoRows /\ side_effects = NoRows
    /\ root_states = <<>> => cursors = {}

SetupOK ==
    /\ pc \in [Nodes -> {"unborn", "joining", "waiting", "setup", "tick", "elect", "orchestrate",
                         "panicked", "dead"}]
    /\ todo \in [Nodes -> Seq(Statements)]
    /\ \A n \in Nodes : IF pc[n] = "setup" THEN TodoOK(n) ELSE todo[n] = <<>>
    /\ root \in [Nodes -> RootStates]

\* Tasks run in the loop only, and what a task has loaded is there.
TasksOK ==
    /\ elected \in [Nodes -> Nodes]
    /\ state \in [Nodes -> {"Idle", "Active", "InActive", "Aborted"}]
    /\ tasks \in [Nodes -> SUBSET Tasks]
    /\ \A n \in Nodes : tasks[n] # {} =>
          state[n] = "Active" /\ pc[n] \in {"tick", "elect", "orchestrate", "panicked"}
    /\ loaded \in [Nodes -> Loads]
    /\ \A n \in Nodes : /\ loaded[n].ingest # 0 => "ingester" \in tasks[n] /\ cursors # {}
                        /\ loaded[n].block # 0 => "handlers" \in tasks[n] /\ cursors # {}
                        /\ loaded[n].is_open => loaded[n].block # 0
    /\ cut_off \in [Blocks -> Nat]

EnvironmentOK ==
    /\ recent \in [Nodes -> BOOLEAN] /\ overlapped \in BOOLEAN
    /\ crashes \in 0..MaxCrashes /\ lapses \in 0..MaxLapses

Types == NodesOK /\ RoundsOK /\ DatabaseOK /\ SetupOK /\ TasksOK /\ EnvironmentOK

-----------------------------------------------------------------------------
(* What is true of the index while no two nodes have written at once *)

\* No two nodes write, nor are about to.
Alone ==
    /\ \A n, m \in Writers : n = m
    /\ \A n, m \in Booting : n = m

\* Should n reset, given the last root state
Should(n) ==
    \/ ShouldResetNormally(n, Last(root_states))
    \/ ShouldResetIncludingSideEffects(n, Last(root_states))
ShouldZero(n) == ShouldResetIncludingSideEffects(n, Last(root_states))
Recorded == Last(root_states).reset_including_side_effects_count

Clean == \A c \in cursors, b \in Blocks :
    /\ events[b] = IF b < c.ingest THEN 1 ELSE 0
    /\ versions[b] = IF b < c.handle THEN 1 ELSE 0

\* The side effects of b ran in a transaction that is still open.
Pending(b) == \E n \in Nodes :
    loaded[n].is_open /\ loaded[n].block = b /\ RunsSideEffects(b, loaded[n].side_effects)
Passed(b) == \E c \in cursors : b < c.side_effects

\* The side effects of a block ran at most once per reset that is recorded and per
\* transaction that was cut off, and once more if the cursor is past it or about to be.
Counted == \A b \in Blocks :
    side_effects[b] <= Recorded + cut_off[b] + IF Passed(b) \/ Pending(b) THEN 1 ELSE 0

\* Nodes that are yet to compare their Config to the root states
Undecided == {n \in Nodes : \/ pc[n] \in {"unborn", "joining", "waiting"}
                            \/ pc[n] = "setup" /\ \E i \in 1..5 : Beginning(n, i)}

\* An index that a reset was interrupted in has no table of events, and every node that
\* is yet to set up does that reset again.
IndexInv ==
    Clean \/ /\ "events" \notin tables /\ root_states # <<>>
             /\ \A n \in Undecided : Should(n)

SideEffectsInv ==
    root_states # <<>> =>
       Counted \/ /\ "events" \notin tables
                  /\ \A n \in Undecided : ShouldZero(n)
                  /\ \A b \in Blocks : side_effects[b] <= Recorded + cut_off[b] + 1

\* What the first statements of a reset have undone
FromStart == \A c \in cursors : c.ingest = StartBlockNumber /\ c.handle = StartBlockNumber
Undone(i) ==
    /\ i >= 2 => "events" \notin tables /\ events = NoRows
    /\ i >= 3 => "reorged_blocks" \notin tables
    /\ i >= 4 => FromStart
    /\ i >= 5 => "states" \notin tables /\ versions = NoRows

\* n has decided to reset: the root state it is to append is behind the last one, and
\* what an earlier reset has left to do is part of its own.
Decided(n) ==
    /\ Should(n) /\ root[n] = UpdatedRootState(n, Last(root_states))
    /\ ~ ShouldZero(n) => Counted

\* Where a setup is in its statements, and what that says of the index
SetupInv(n) ==
    \/ \E i \in 1..5 : Beginning(n, i)
    \/ /\ Decided(n)
       /\ \/ \E i \in 1..4, rest \in AfterReset :
                /\ Resetting(n, i, rest) /\ Undone(i)
                /\ rest # Recording => ShouldZero(n)
          \/ todo[n] = Zeroing /\ Undone(5) /\ ShouldZero(n)
          \/ todo[n] = Recording /\ Undone(5)
    \/ (\E i \in 1..5 : Migrating(n, i)) /\ Clean /\ Counted

\* What a task has loaded is still what the cursors say.
LoadedInv(n) ==
    /\ loaded[n].ingest # 0 => \A c \in cursors : c.ingest = loaded[n].ingest
    /\ loaded[n].block # 0 =>
          /\ "events" \in tables
          /\ \A c \in cursors : /\ c.handle = loaded[n].block
                                /\ c.side_effects = loaded[n].side_effects

ResetInv ==
    ~ overlapped =>
       /\ Alone /\ IndexInv /\ SideEffectsInv
       /\ \A n \in Nodes : pc[n] = "setup" => SetupInv(n)
       /\ \A n \in Nodes : LoadedInv(n)

-----------------------------------------------------------------------------
(* Lemmas about sequences of statements *)

LEMMA TailOfConcat ==
    ASSUME NEW S, NEW s \in Seq(S), NEW t \in Seq(S), s # <<>>
    PROVE  /\ s \o t \in Seq(S) /\ s \o t # <<>>
           /\ Head(s \o t) = Head(s)
           /\ Tail(s \o t) = Tail(s) \o t
<1>1. /\ Len(s) \in Nat \ {0} /\ Len(t) \in Nat
      /\ Tail(s) \in Seq(S) /\ Len(Tail(s)) = Len(s) - 1
      /\ \A i \in 1..Len(s) - 1 : Tail(s)[i] = s[i + 1]
  BY EmptySeq, LenProperties, HeadTailProperties
<1>2. /\ s \o t \in Seq(S) /\ Len(s \o t) = Len(s) + Len(t)
      /\ \A i \in 1..Len(s) + Len(t) :
            (s \o t)[i] = IF i <= Len(s) THEN s[i] ELSE t[i - Len(s)]
  BY ConcatProperties
<1>3. s \o t # <<>>
  BY <1>1, <1>2, EmptySeq
<1>4. Head(s \o t) = Head(s)
  BY <1>1, <1>2, <1>3
<1>5. /\ Tail(s \o t) \in Seq(S) /\ Len(Tail(s \o t)) = Len(s) + Len(t) - 1
      /\ \A i \in 1..Len(s) + Len(t) - 1 : Tail(s \o t)[i] = (s \o t)[i + 1]
  BY <1>2, <1>3, HeadTailProperties
<1>6. /\ Tail(s) \o t \in Seq(S) /\ Len(Tail(s) \o t) = Len(s) + Len(t) - 1
      /\ \A i \in 1..Len(s) + Len(t) - 1 : (Tail(s) \o t)[i] =
            IF i <= Len(s) - 1 THEN Tail(s)[i] ELSE t[i - (Len(s) - 1)]
  BY <1>1, ConcatProperties
<1>7. ASSUME NEW i \in 1..Len(s) + Len(t) - 1
      PROVE  Tail(s \o t)[i] = (Tail(s) \o t)[i]
  <2>1. CASE i <= Len(s) - 1
    <3>1. /\ Tail(s \o t)[i] = s[i + 1] /\ (Tail(s) \o t)[i] = Tail(s)[i]
          /\ i \in 1..Len(s) - 1
      BY <1>1, <1>2, <1>5, <1>6, <2>1
    <3> QED BY <3>1, <1>1
  <2>2. CASE i > Len(s) - 1
    <3>1. /\ i - (Len(s) - 1) = i + 1 - Len(s)
          /\ i + 1 \in 1..Len(s) + Len(t) /\ i + 1 > Len(s)
      BY <1>1, <2>2
    <3>2. Tail(s \o t)[i] = t[i + 1 - Len(s)]
      BY <1>1, <1>2, <1>5, <3>1
    <3> QED BY <3>1, <3>2, <1>1, <1>6, <2>2
  <2> QED BY <1>1, <2>1, <2>2
<1> QED BY <1>3, <1>2, <1>4, <1>5, <1>6, <1>7, SeqEqual

LEMMA FromProperties ==
    ASSUME NEW S, NEW s \in Seq(S), NEW i \in 1..Len(s)
    PROVE  /\ From(s, i) \in Seq(S) /\ From(s, i) # <<>>
           /\ Head(From(s, i)) = s[i] /\ Tail(From(s, i)) = From(s, i + 1)
<1>1. Len(s) \in Nat /\ \A j \in i..Len(s) : s[j] \in S
  BY LenProperties, ElementOfSeq
<1>2. From(s, i) \in Seq(S) /\ Len(From(s, i)) = Len(s) - i + 1
  BY <1>1, SubSeqProperties DEF From
<1>3. From(s, i) # <<>>
  BY <1>1, <1>2, EmptySeq
<1>4. Head(From(s, i)) = s[i] /\ Tail(From(s, i)) = From(s, i + 1)
  BY <1>1, HeadTailOfSubSeq DEF From
<1> QED BY <1>2, <1>3, <1>4

LEMMA FromEnds ==
    ASSUME NEW S, NEW s \in Seq(S), NEW rest \in Seq(S)
    PROVE  /\ From(s, 1) = s
           /\ From(s, Len(s) + 1) = <<>>
           /\ From(s, Len(s) + 1) \o rest = rest
<1>1. Len(s) \in Nat
  BY LenProperties
<1>2. From(s, 1) = s
  BY SubSeqFull DEF From
<1>3. From(s, Len(s) + 1) = <<>>
  BY <1>1, SubSeqEmpty DEF From
<1> QED BY <1>2, <1>3, ConcatEmptySeq

LEMMA StatementSequences ==
    /\ SetupStatements \in Seq(Statements) /\ Len(SetupStatements) = 5
    /\ SetupStatements[1] = "create_root_states"
    /\ SetupStatements[2] = "create_contract_addresses"
    /\ SetupStatements[3] = "default_root_state"
    /\ SetupStatements[4] = "prune_root_states" /\ SetupStatements[5] = "maybe_reset"
    /\ ResetStatements \in Seq(Statements) /\ Len(ResetStatements) = 4
    /\ ResetStatements[1] = "drop_events" /\ ResetStatements[2] = "drop_reorged_blocks"
    /\ ResetStatements[3] = "restart_cursors" /\ ResetStatements[4] = "drop_states"
    /\ MigrationStatements \in Seq(Statements) /\ Len(MigrationStatements) = 4
    /\ MigrationStatements[1] = "create_events"
    /\ MigrationStatements[2] = "create_reorged_blocks"
    /\ MigrationStatements[3] = "create_states"
    /\ MigrationStatements[4] = "insert_contract_addresses"
BY DEF SetupStatements, ResetStatements, MigrationStatements, Statements

LEMMA ConsProperties ==
    ASSUME NEW S, NEW x \in S, NEW s \in Seq(S)
    PROVE  /\ <<x>> \o s \in Seq(S) /\ <<x>> \o s # <<>>
           /\ Head(<<x>> \o s) = x /\ Tail(<<x>> \o s) = s
<1>1. <<x>> \in Seq(S) /\ <<x>> # <<>> /\ Head(<<x>>) = x /\ Tail(<<x>>) = <<>>
  OBVIOUS
<1>2. <<>> \o s = s
  BY ConcatEmptySeq
<1> QED BY <1>1, <1>2, TailOfConcat

LEMMA RestSequences ==
    /\ Recording \in Seq(Statements) /\ Recording # <<>>
    /\ Head(Recording) = "append_root_state" /\ Tail(Recording) = MigrationStatements
    /\ Zeroing \in Seq(Statements) /\ Zeroing # <<>>
    /\ Head(Zeroing) = "zero_side_effects" /\ Tail(Zeroing) = Recording
    /\ AfterReset \subseteq Seq(Statements)
    /\ Zeroing # Recording /\ ResetStatements \o Zeroing # Recording
    /\ ResetStatements \o Zeroing # Zeroing
    /\ Head(ResetStatements \o Zeroing) = "drop_events"
<1>1. "append_root_state" \in Statements /\ "zero_side_effects" \in Statements
  BY DEF Statements
<1>2. /\ Recording \in Seq(Statements) /\ Recording # <<>>
      /\ Head(Recording) = "append_root_state" /\ Tail(Recording) = MigrationStatements
  BY <1>1, StatementSequences, ConsProperties DEF Recording
<1>3. /\ Zeroing \in Seq(Statements) /\ Zeroing # <<>>
      /\ Head(Zeroing) = "zero_side_effects" /\ Tail(Zeroing) = Recording
  BY <1>1, <1>2, ConsProperties DEF Zeroing
<1>4. /\ ResetStatements \o Zeroing \in Seq(Statements)
      /\ Head(ResetStatements \o Zeroing) = "drop_events"
  <2>1. ResetStatements # <<>> /\ Head(ResetStatements) = "drop_events"
    BY StatementSequences
  <2> QED BY <1>3, <2>1, StatementSequences, TailOfConcat
<1> QED BY <1>2, <1>3, <1>4 DEF AfterReset

\* What each form of todo[n] begins with, and what it leaves.
LEMMA TodoForms ==
    ASSUME NEW n
    PROVE  /\ \A i \in 1..5 : Beginning(n, i) =>
                /\ todo[n] # <<>> /\ Head(todo[n]) = SetupStatements[i]
                /\ Tail(todo[n]) = From(SetupStatements, i + 1)
           /\ \A i \in 1..4 : \A rest \in AfterReset : Resetting(n, i, rest) =>
                /\ todo[n] # <<>> /\ Head(todo[n]) = ResetStatements[i]
                /\ Tail(todo[n]) = From(ResetStatements, i + 1) \o rest
           /\ \A i \in 1..4 : Migrating(n, i) =>
                /\ todo[n] # <<>> /\ Head(todo[n]) = MigrationStatements[i]
                /\ Tail(todo[n]) = From(MigrationStatements, i + 1)
           /\ Migrating(n, 5) => todo[n] = <<>>
           /\ \A rest \in AfterReset : From(ResetStatements, 5) \o rest = rest
<1>1. <<>> \in Seq(Statements)
  OBVIOUS
<1>2. ASSUME NEW i \in 1..5, Beginning(n, i)
      PROVE  /\ todo[n] # <<>> /\ Head(todo[n]) = SetupStatements[i]
             /\ Tail(todo[n]) = From(SetupStatements, i + 1)
  <2>1. SetupStatements \in Seq(Statements) /\ i \in 1..Len(SetupStatements)
    BY StatementSequences
  <2>2. /\ From(SetupStatements, i) # <<>>
        /\ Head(From(SetupStatements, i)) = SetupStatements[i]
        /\ Tail(From(SetupStatements, i)) = From(SetupStatements, i + 1)
    BY <1>1, <2>1, FromProperties
  <2> QED BY <1>2, <2>2 DEF Beginning
<1>3. ASSUME NEW i \in 1..4, NEW rest \in AfterReset, Resetting(n, i, rest)
      PROVE  /\ todo[n] # <<>> /\ Head(todo[n]) = ResetStatements[i]
             /\ Tail(todo[n]) = From(ResetStatements, i + 1) \o rest
  <2>1. rest \in Seq(Statements)
    BY RestSequences
  <2>2. ResetStatements \in Seq(Statements) /\ i \in 1..Len(ResetStatements)
    BY StatementSequences
  <2>3. /\ From(ResetStatements, i) \o rest # <<>>
        /\ Head(From(ResetStatements, i) \o rest) = ResetStatements[i]
        /\ Tail(From(ResetStatements, i) \o rest) = From(ResetStatements, i + 1) \o rest
    <3> DEFINE left == From(ResetStatements, i)
    <3>1. /\ left \in Seq(Statements) /\ left # <<>>
          /\ Head(left) = ResetStatements[i] /\ Tail(left) = From(ResetStatements, i + 1)
      BY <2>2, FromProperties
    <3> HIDE DEF left
    <3>2. /\ left \o rest # <<>> /\ Head(left \o rest) = Head(left)
          /\ Tail(left \o rest) = Tail(left) \o rest
      BY <2>1, <3>1, TailOfConcat
    <3> QED BY <3>1, <3>2 DEF left
  <2> QED BY <1>3, <2>3 DEF Resetting
<1>4. ASSUME NEW i \in 1..4, Migrating(n, i)
      PROVE  /\ todo[n] # <<>> /\ Head(todo[n]) = MigrationStatements[i]
             /\ Tail(todo[n]) = From(MigrationStatements, i + 1)
  <2>1. MigrationStatements \in Seq(Statements) /\ i \in 1..Len(MigrationStatements)
    BY StatementSequences
  <2>2. /\ From(MigrationStatements, i) # <<>>
        /\ Head(From(MigrationStatements, i)) = MigrationStatements[i]
        /\ Tail(From(MigrationStatements, i)) = From(MigrationStatements, i + 1)
    BY <1>1, <2>1, FromProperties
  <2> QED BY <1>4, <2>2 DEF Migrating
<1>5. Migrating(n, 5) => todo[n] = <<>>
  <2>1. From(MigrationStatements, Len(MigrationStatements) + 1) = <<>>
    BY <1>1, StatementSequences, FromEnds
  <2>2. Len(MigrationStatements) + 1 = 5
    BY StatementSequences
  <2> QED BY <2>1, <2>2 DEF Migrating
<1>6. ASSUME NEW rest \in AfterReset PROVE From(ResetStatements, 5) \o rest = rest
  <2>1. rest \in Seq(Statements)
    BY RestSequences
  <2>2. From(ResetStatements, Len(ResetStatements) + 1) \o rest = rest
    BY <2>1, StatementSequences, FromEnds
  <2>3. Len(ResetStatements) + 1 = 5
    BY StatementSequences
  <2> QED BY <2>2, <2>3
<1> QED BY <1>2, <1>3, <1>4, <1>5, <1>6

\* What maybe_reset leaves to do, given the last root state.
LEMMA ResetPlanForms ==
    ASSUME NEW n, NEW r
    PROVE  LET plan == ResetPlan(n, r) \o MigrationStatements
               normally == ShouldResetNormally(n, r)
               dangerously == ShouldResetIncludingSideEffects(n, r)
           IN  /\ plan \in Seq(Statements)
               /\ ~ normally /\ ~ dangerously => plan = From(MigrationStatements, 1)
               /\ normally /\ ~ dangerously => plan = From(ResetStatements, 1) \o Recording
               /\ ~ normally /\ dangerously => plan = From(ResetStatements, 1) \o Zeroing
               /\ normally /\ dangerously =>
                     plan = From(ResetStatements, 1) \o (ResetStatements \o Zeroing)
<1> DEFINE plan == ResetPlan(n, r) \o MigrationStatements
           normally == ShouldResetNormally(n, r)
           dangerously == ShouldResetIncludingSideEffects(n, r)
           R == ResetStatements
           M == MigrationStatements
           A == <<"append_root_state">>
           Z == <<"zero_side_effects">>
<1>1. /\ R \in Seq(Statements) /\ M \in Seq(Statements)
      /\ A \in Seq(Statements) /\ Z \in Seq(Statements) /\ <<>> \in Seq(Statements)
  BY StatementSequences DEF Statements
<1>2. From(R, 1) = R /\ From(M, 1) = M
  BY <1>1, FromEnds
<1>3. Recording = A \o M /\ Zeroing = Z \o (A \o M)
  BY DEF Recording, Zeroing
<1>4. /\ R \o Z \in Seq(Statements) /\ A \o M \in Seq(Statements)
      /\ Z \o (A \o M) \in Seq(Statements)
  BY <1>1, ConcatProperties
<1> HIDE DEF R, M, A, Z
<1>9. (R \o Z) \o (A \o M) = R \o (Z \o (A \o M))
  <2> DEFINE t == A \o M
  <2>1. t \in Seq(Statements)
    BY <1>4
  <2> HIDE DEF t
  <2>2. (R \o Z) \o t = R \o (Z \o t)
    BY <1>1, <2>1, ConcatAssociative
  <2> QED BY <2>2 DEF t
<1>5. CASE ~ normally /\ ~ dangerously
  <2>1. plan = ((<<>> \o <<>>) \o <<>>) \o M
    BY <1>5 DEF ResetPlan, When, M
  <2>2. plan = M
    BY <1>1, <2>1, ConcatEmptySeq
  <2> QED BY <1>1, <1>2, <1>5, <2>2 DEF M
<1>6. CASE normally /\ ~ dangerously
  <2>1. plan = ((R \o <<>>) \o A) \o M
    BY <1>6 DEF ResetPlan, When, M, R, A
  <2>2. R \o <<>> = R
    BY <1>1, ConcatEmptySeq
  <2>3. plan = R \o (A \o M)
    BY <1>1, <2>1, <2>2, ConcatAssociative
  <2>4. plan \in Seq(Statements)
    BY <1>1, <1>4, <2>3, ConcatProperties
  <2> QED BY <1>2, <1>3, <1>6, <2>3, <2>4 DEF R
<1>7. CASE ~ normally /\ dangerously
  <2>1. plan = ((<<>> \o (R \o Z)) \o A) \o M
    BY <1>7 DEF ResetPlan, When, M, R, A, Z
  <2>2. <<>> \o (R \o Z) = R \o Z
    BY <1>1, <1>4, ConcatEmptySeq
  <2>3. plan = (R \o Z) \o (A \o M)
    <3> DEFINE s == R \o Z
    <3>1. s \in Seq(Statements)
      BY <1>4
    <3>2. plan = (s \o A) \o M
      BY <2>1, <2>2, Zenon DEF s
    <3> HIDE DEF s
    <3>3. (s \o A) \o M = s \o (A \o M)
      BY <1>1, <3>1, ConcatAssociative
    <3>4. plan = s \o (A \o M)
      BY <3>2, <3>3, Zenon
    <3> QED BY <3>4, Zenon DEF s
  <2>4. plan = R \o (Z \o (A \o M))
    BY <2>3, <1>9, Zenon
  <2>5. plan \in Seq(Statements)
    BY <1>1, <1>4, <2>4, ConcatProperties
  <2> QED BY <1>2, <1>3, <1>7, <2>4, <2>5 DEF R
<1>8. CASE normally /\ dangerously
  <2>1. plan = ((R \o (R \o Z)) \o A) \o M
    BY <1>8 DEF ResetPlan, When, M, R, A, Z
  <2>2. /\ R \o (R \o Z) \in Seq(Statements)
        /\ R \o (Z \o (A \o M)) \in Seq(Statements)
    BY <1>1, <1>4, ConcatProperties
  <2>3. ((R \o (R \o Z)) \o A) \o M = (R \o (R \o Z)) \o (A \o M)
    <3> DEFINE s == R \o (R \o Z)
    <3>1. s \in Seq(Statements)
      BY <2>2
    <3> HIDE DEF s
    <3>2. (s \o A) \o M = s \o (A \o M)
      BY <1>1, <3>1, ConcatAssociative
    <3> QED BY <3>2 DEF s
  <2>4. (R \o (R \o Z)) \o (A \o M) = R \o ((R \o Z) \o (A \o M))
    <3> DEFINE s == R \o Z
               t == A \o M
    <3>1. s \in Seq(Statements) /\ t \in Seq(Statements)
      BY <1>4
    <3> HIDE DEF s, t
    <3>2. (R \o s) \o t = R \o (s \o t)
      BY <1>1, <3>1, ConcatAssociative
    <3> QED BY <3>2 DEF s, t
  <2>5. (R \o Z) \o (A \o M) = R \o (Z \o (A \o M))
    BY <1>9
  <2>6. plan = R \o (R \o (Z \o (A \o M)))
    BY <2>1, <2>3, <2>4, <2>5, Zenon
  <2>7. plan \in Seq(Statements)
    BY <1>1, <2>2, <2>6, ConcatProperties
  <2> QED BY <1>2, <1>3, <1>8, <2>6, <2>7 DEF R
<1> QED BY <1>5, <1>6, <1>7, <1>8 DEF R, M

\* Executing a statement moves the setup on to the next one.
LEMMA ProceedTodoOK ==
    ASSUME NEW n \in Nodes, todo \in [Nodes -> Seq(Statements)],
           TodoOK(n), todo[n] # <<>>, Head(todo[n]) # "maybe_reset", Proceed(n),
           root_states # <<>> \/ Head(todo[n]) = "default_root_state" => root_states' # <<>>
    PROVE  TodoOK(n)'
<1>1. todo'[n] = Tail(todo[n])
  BY DEF Proceed
<1>2. ASSUME NEW i \in 1..5, Beginning(n, i), i >= 4 => root_states # <<>>
      PROVE  TodoOK(n)'
  <2>1. Head(todo[n]) = SetupStatements[i] /\ todo'[n] = From(SetupStatements, i + 1)
    BY <1>1, <1>2, TodoForms
  <2>2. i \in 1..4 /\ (i >= 3 => root_states' # <<>>)
    BY <1>2, <2>1, StatementSequences
  <2>3. i + 1 \in 1..5 /\ (i + 1 >= 4 => root_states' # <<>>)
    BY <2>2
  <2> QED BY <2>1, <2>3 DEF TodoOK, Beginning
<1>3. ASSUME root_states # <<>>, NEW i \in 1..4, NEW rest \in AfterReset,
             Resetting(n, i, rest)
      PROVE  TodoOK(n)'
  <2>1. todo'[n] = From(ResetStatements, i + 1) \o rest /\ root_states' # <<>>
    BY <1>1, <1>3, TodoForms
  <2>2. CASE i \in 1..3
    <3>1. i + 1 \in 1..4
      BY <2>2
    <3> QED BY <2>1, <3>1 DEF TodoOK, Resetting
  <2>3. CASE i = 4
    <3>1. todo'[n] = rest
      BY <2>1, <2>3, TodoForms
    <3>2. From(ResetStatements, 1) = ResetStatements
      BY StatementSequences, FromEnds, RestSequences
    <3>3. rest = Recording \/ rest = Zeroing
          \/ rest = From(ResetStatements, 1) \o Zeroing
      BY <3>2 DEF AfterReset
    <3>4. 1 \in 1..4 /\ Zeroing \in AfterReset
      BY DEF AfterReset
    <3> QED BY <2>1, <3>1, <3>3, <3>4 DEF TodoOK, Resetting
  <2> QED BY <2>2, <2>3
<1>4. CASE root_states # <<>> /\ todo[n] = Zeroing
  BY <1>1, <1>4, RestSequences DEF TodoOK
<1>5. CASE root_states # <<>> /\ todo[n] = Recording
  <2>1. todo'[n] = From(MigrationStatements, 1)
    BY <1>1, <1>5, RestSequences, StatementSequences, FromEnds
  <2> QED BY <1>5, <2>1 DEF TodoOK, Migrating
<1>6. ASSUME root_states # <<>>, NEW i \in 1..5, Migrating(n, i)
      PROVE  TodoOK(n)'
  <2>1. i \in 1..4
    BY <1>6, TodoForms
  <2>2. todo'[n] = From(MigrationStatements, i + 1) /\ i + 1 \in 1..5
    BY <1>1, <1>6, <2>1, TodoForms
  <2> QED BY <1>6, <2>2 DEF TodoOK, Migrating
<1> QED BY <1>2, <1>3, <1>4, <1>5, <1>6 DEF TodoOK

-----------------------------------------------------------------------------
(* Type correctness *)

LEMMA Constants ==
    /\ NodeCount \in Nat \ {0} /\ ElectionRate \in Nat \ {0} /\ RoundTime \in Nat
    /\ RoundTime <= ElectionRate /\ MaxRootStateCount \in Nat \ {0}
    /\ StartBlockNumber \in Nat \ {0} /\ MaxBlockNumber \in Nat
    /\ MaxCrashes \in Nat /\ MaxLapses \in Nat /\ MaxAge = 2 * ElectionRate
    /\ Nodes \subseteq Nat \ {0} /\ Blocks \subseteq Nat \ {0}
    /\ IsFiniteSet(Nodes)
    /\ ResetCount \in [Nodes -> Nat] /\ ResetIncludingSideEffectsCount \in [Nodes -> Nat]
    /\ \A n, m \in Nodes : n < m =>
          /\ ResetCount[n] <= ResetCount[m]
          /\ ResetIncludingSideEffectsCount[n] <= ResetIncludingSideEffectsCount[m]
<1>1. IsFiniteSet(Nodes)
  BY ClusterAssumption, FS_Interval DEF Nodes
<1> QED BY <1>1, ClusterAssumption DEF Nodes, Blocks, MaxAge

LEMMA InitTypes == Init => Types
<1> SUFFICES ASSUME Init PROVE Types
  OBVIOUS
<1> USE Constants
<1>1. NodesOK
  BY DEF Init, NodesOK, Unborn
<1>2. RoundsOK
  BY DEF Init, RoundsOK
<1>3. DatabaseOK
  BY DEF Init, DatabaseOK, NoRows, Tables, Cursors, RootStates
<1>4. SetupOK
  BY DEF Init, SetupOK, DefaultRootState, RootStates
<1>5. TasksOK
  BY DEF Init, TasksOK, Nothing, Loads, NoRows
<1>6. EnvironmentOK
  <2>1. recent \in [Nodes -> BOOLEAN]
    BY DEF Init
  <2>2. overlapped \in BOOLEAN
    BY Zenon DEF Init
  <2>3. crashes \in 0..MaxCrashes /\ lapses \in 0..MaxLapses
    BY DEF Init
  <2> QED BY <2>1, <2>2, <2>3 DEF EnvironmentOK
<1> QED BY <1>1, <1>2, <1>3, <1>4, <1>5, <1>6 DEF Types

\* The parts of Types that read none of the variables a group of actions changes.
LEMMA UnchangedDatabaseOK ==
    ASSUME DatabaseOK, UNCHANGED database
    PROVE  DatabaseOK'
BY DEF DatabaseOK, database, index

LEMMA UnchangedEnvironmentOK ==
    ASSUME EnvironmentOK, UNCHANGED environment, overlapped' \in BOOLEAN
    PROVE  EnvironmentOK'
BY DEF EnvironmentOK, environment

\* TodoOK, of a node whose statements stay as they are.
LEMMA UnchangedTodoOK ==
    ASSUME NEW n \in Nodes, TodoOK(n), todo'[n] = todo[n],
           root_states # <<>> => root_states' # <<>>
    PROVE  TodoOK(n)'
BY DEF TodoOK, Beginning, Resetting, Migrating

LEMMA SetupNodesTypes ==
    ASSUME Types, NEW n \in Nodes, SetupNodes(n), overlapped' \in BOOLEAN
    PROVE  Types'
<1> USE Constants DEF Types
<1>1. NodesOK'
  BY DEF NodesOK, SetupNodes, PrunedNodes, Unborn, SetupOK
<1>2. RoundsOK'
  BY DEF RoundsOK, SetupNodes, PrunedNodes, SetupOK, NodesOK
<1>3. SetupOK'
  <2>1. \A m \in Nodes : IF pc'[m] = "setup" THEN TodoOK(m)' ELSE todo'[m] = <<>>
    BY UnchangedTodoOK DEF SetupOK, SetupNodes, database, setup
  <2> QED BY <2>1 DEF SetupOK, SetupNodes, setup
<1>4. TasksOK'
  BY DEF TasksOK, SetupNodes, running, database, index
<1> QED BY <1>1, <1>2, <1>3, <1>4, UnchangedDatabaseOK, UnchangedEnvironmentOK DEF SetupNodes

LEMMA CreateNodeTypes ==
    ASSUME Types, NEW n \in Nodes, CreateNode(n), overlapped' \in BOOLEAN
    PROVE  Types'
<1> USE Constants DEF Types
<1>1. this_second <= n
  BY DEF NodesOK, CreateNode, Unborn
<1>2. NodesOK'
  <2>1. /\ nodes' \subseteq Nodes /\ active_age' \in [Nodes -> 0..MaxAge]
        /\ inserted_at' \in [Nodes -> Nat] /\ this_second' = this_second
    BY DEF NodesOK, CreateNode
  <2>2. /\ inserted_at'[n] = this_second /\ pc'[n] = "waiting"
        /\ \A m \in Nodes : m # n => inserted_at'[m] = inserted_at[m] /\ pc'[m] = pc[m]
    BY DEF NodesOK, CreateNode, SetupOK
  <2>3. inserted_at[n] = 0 \/ ~ Unborn(n)
    BY DEF NodesOK
  <2>4. \A m \in Nodes : inserted_at'[m] <= m
    BY <1>1, <2>2 DEF NodesOK
  <2>5. this_second' # 1 => \E m \in Nodes : inserted_at'[m] = this_second' - 1
    BY <2>1, <2>2, <2>3 DEF NodesOK, CreateNode, Unborn
  <2>6. \A m \in Nodes : Unborn(m)' => m # n /\ Unborn(m)
    BY <2>2 DEF CreateNode, Unborn
  <2>7. \A m \in Nodes : Unborn(m)' => m \notin nodes' /\ inserted_at'[m] = 0
    BY <2>2, <2>6 DEF NodesOK, CreateNode
  <2>8. \A m \in Nodes : pc'[m] # "unborn" => \A k \in Nodes : k < m => ~ Unborn(k)'
    BY <2>2, <2>6 DEF NodesOK, CreateNode
  <2> QED BY <2>1, <2>4, <2>5, <2>7, <2>8 DEF NodesOK
<1>3. RoundsOK'
  BY DEF RoundsOK, CreateNode, SetupOK, NodesOK
<1>4. SetupOK'
  <2>1. \A m \in Nodes : IF pc'[m] = "setup" THEN TodoOK(m)' ELSE todo'[m] = <<>>
    BY UnchangedTodoOK DEF SetupOK, CreateNode, database, setup
  <2> QED BY <2>1 DEF SetupOK, CreateNode, setup
<1>5. TasksOK'
  BY DEF TasksOK, CreateNode, running, database, index
<1> QED BY <1>2, <1>3, <1>4, <1>5, UnchangedDatabaseOK, UnchangedEnvironmentOK DEF CreateNode

LEMMA StartSetupTypes ==
    ASSUME Types, NEW n \in Nodes, StartSetup(n), overlapped' \in BOOLEAN
    PROVE  Types'
<1> USE Constants DEF Types
<1>1. NodesOK'
  BY DEF NodesOK, StartSetup, Unborn, SetupOK, node_rows
<1>2. RoundsOK'
  BY DEF RoundsOK, StartSetup, SetupOK, node_rows, NodesOK
<1>3. SetupOK'
  <2>1. TodoOK(n)'
    <3>1. todo'[n] = From(SetupStatements, 1)
      BY StatementSequences, FromEnds, RestSequences DEF StartSetup, SetupOK
    <3> QED BY <3>1 DEF TodoOK, Beginning
  <2>2. \A m \in Nodes : IF pc'[m] = "setup" THEN TodoOK(m)' ELSE todo'[m] = <<>>
    BY <2>1, UnchangedTodoOK DEF SetupOK, StartSetup, database
  <2> QED BY <2>2, StatementSequences DEF SetupOK, StartSetup
<1>4. TasksOK'
  BY DEF TasksOK, StartSetup, running, database, index, SetupOK
<1> QED BY <1>1, <1>2, <1>3, <1>4, UnchangedDatabaseOK, UnchangedEnvironmentOK DEF StartSetup

LEMMA StartLoopTypes ==
    ASSUME Types, NEW n \in Nodes, StartLoop(n), overlapped' \in BOOLEAN
    PROVE  Types'
<1> USE Constants DEF Types
<1>1. NodesOK'
  BY DEF NodesOK, StartLoop, Unborn, SetupOK, node_rows
<1>2. RoundsOK'
  BY DEF RoundsOK, StartLoop, SetupOK, node_rows, NodesOK
<1>3. SetupOK'
  <2>1. \A m \in Nodes : IF pc'[m] = "setup" THEN TodoOK(m)' ELSE todo'[m] = <<>>
    BY UnchangedTodoOK DEF SetupOK, StartLoop, database
  <2> QED BY <2>1 DEF SetupOK, StartLoop, DefaultRootState, RootStates
<1>4. TasksOK'
  BY DEF TasksOK, StartLoop, running, database, index, SetupOK
<1> QED BY <1>1, <1>2, <1>3, <1>4, UnchangedDatabaseOK, UnchangedEnvironmentOK DEF StartLoop

LEMMA KeepNodeActiveTypes ==
    ASSUME Types, NEW n \in Nodes, KeepNodeActive(n), overlapped' \in BOOLEAN
    PROVE  Types'
<1> USE Constants DEF Types
<1>0. /\ active_age' \in [Nodes -> 0..MaxAge]
      /\ \A m \in Nodes \ {n} : active_age'[m] = active_age[m]
      /\ n \in nodes => active_age'[n] = 0
  <2>1. CASE n \in nodes
    BY <2>1 DEF NodesOK, KeepNodeActive
  <2>2. CASE n \notin nodes
    BY <2>2 DEF NodesOK, KeepNodeActive
  <2> QED BY <2>1, <2>2
<1>1. NodesOK'
  <2>1. \A m \in Nodes : (Unborn(m)' <=> Unborn(m)) /\ (pc'[m] = "unborn" <=> pc[m] = "unborn")
    BY DEF Unborn, SetupOK, KeepNodeActive
  <2>2. UNCHANGED <<nodes, inserted_at, this_second>>
    BY DEF KeepNodeActive
  <2> QED BY <1>0, <2>1, <2>2 DEF NodesOK
<1>2. RoundsOK'
  <2>1. /\ UNCHANGED nodes /\ pc'[n] = "elect" /\ timer'[n] = RoundTime
        /\ \A m \in Nodes \ {n} : pc'[m] = pc[m] /\ timer'[m] = timer[m]
        /\ timer' \in [Nodes -> 0..ElectionRate]
    BY DEF KeepNodeActive, SetupOK, RoundsOK
  <2> QED BY <1>0, <2>1 DEF RoundsOK, NodesOK
<1>3. SetupOK'
  <2>1. \A m \in Nodes : IF pc'[m] = "setup" THEN TodoOK(m)' ELSE todo'[m] = <<>>
    BY UnchangedTodoOK DEF SetupOK, KeepNodeActive, database, setup
  <2> QED BY <2>1 DEF SetupOK, KeepNodeActive, setup
<1>4. TasksOK'
  BY DEF TasksOK, KeepNodeActive, running, database, index
<1> QED BY <1>1, <1>2, <1>3, <1>4, UnchangedDatabaseOK, UnchangedEnvironmentOK
       DEF KeepNodeActive

LEMMA ElectTypes ==
    ASSUME Types, NEW n \in Nodes, Elect(n), overlapped' \in BOOLEAN
    PROVE  Types'
<1> USE Constants DEF Types
<1>1. /\ pc[n] = "elect" /\ pc'[n] \in {"panicked", "orchestrate"}
      /\ \A m \in Nodes \ {n} : pc'[m] = pc[m]
  BY DEF Elect, SetupOK
<1>2. elected' \in [Nodes -> Nodes]
  BY DEF Elect, TasksOK
<1>3. NodesOK'
  <2>1. UNCHANGED node_rows
    BY DEF Elect
  <2>2. \A m \in Nodes : (Unborn(m)' <=> Unborn(m)) /\ (pc'[m] = "unborn" <=> pc[m] = "unborn")
    BY <1>1 DEF Unborn
  <2> QED BY <2>1, <2>2 DEF NodesOK, node_rows
<1>4. RoundsOK'
  <2>1. UNCHANGED node_rows /\ UNCHANGED timer
    BY DEF Elect
  <2> QED BY <1>1, <2>1 DEF RoundsOK, NodesOK, node_rows
<1>5. SetupOK'
  <2>1. \A m \in Nodes : IF pc'[m] = "setup" THEN TodoOK(m)' ELSE todo'[m] = <<>>
    BY <1>1, UnchangedTodoOK DEF SetupOK, Elect, database, setup
  <2>2. pc' \in [Nodes -> {"unborn", "joining", "waiting", "setup", "tick", "elect",
                           "orchestrate", "panicked", "dead"}]
    BY DEF SetupOK, Elect
  <2> QED BY <2>1, <2>2 DEF SetupOK, Elect, setup
<1>6. TasksOK'
  BY <1>1, <1>2 DEF TasksOK, Elect, running, database, index
<1> QED BY <1>3, <1>4, <1>5, <1>6, UnchangedDatabaseOK, UnchangedEnvironmentOK DEF Elect

LEMMA CutOffTypes ==
    ASSUME Types, NEW n \in Nodes, CutOff(n)
    PROVE  cut_off' \in [Blocks -> Nat]
<1> DEFINE b == loaded[n].block
<1>1. CASE loaded[n].is_open /\ RunsSideEffects(b, loaded[n].side_effects)
  <2>1. cut_off' = [cut_off EXCEPT ![b] = @ + 1] /\ cut_off \in [Blocks -> Nat]
    BY <1>1 DEF CutOff, Types, TasksOK
  <2>2. b \in Blocks
    BY <1>1 DEF Types, TasksOK, Loads
  <2> HIDE DEF b
  <2> QED BY <2>1, <2>2
<1>2. CASE ~ (loaded[n].is_open /\ RunsSideEffects(b, loaded[n].side_effects))
  BY <1>2 DEF CutOff, Types, TasksOK
<1> QED BY <1>1, <1>2

LEMMA OrchestrateTypes ==
    ASSUME Types, NEW n \in Nodes, Orchestrate(n)
    PROVE  /\ state' \in [Nodes -> {"Idle", "Active", "InActive", "Aborted"}]
           /\ tasks' \in [Nodes -> SUBSET Tasks]
           /\ loaded' \in [Nodes -> Loads]
           /\ \A m \in Nodes \ {n} :
                 state'[m] = state[m] /\ tasks'[m] = tasks[m] /\ loaded'[m] = loaded[m]
           /\ \/ state'[n] = state[n] /\ tasks'[n] = tasks[n] /\ loaded'[n] = loaded[n]
              \/ state'[n] = "Active" /\ loaded'[n] = Nothing
              \/ tasks'[n] = {} /\ loaded'[n] = Nothing
           /\ cut_off' \in [Blocks -> Nat]
           /\ \/ UNCHANGED <<loaded, cut_off>>
              \/ loaded' = [loaded EXCEPT ![n] = Nothing] /\ CutOff(n)
<1> USE Constants DEF Types, TasksOK
<1>1. Nothing \in Loads
  BY DEF Nothing, Loads
<1>2. CASE UNCHANGED running
  BY <1>2 DEF running
<1>3. CASE MakeActive(n)
  BY <1>1, <1>3, CutOffTypes DEF MakeActive, SetState
<1>4. CASE MakeInactive(n)
  BY <1>1, <1>4, CutOffTypes DEF MakeInactive, SetState
<1>5. CASE Abort(n)
  BY <1>1, <1>5, CutOffTypes DEF Abort, SetState
<1> QED BY <1>2, <1>3, <1>4, <1>5, Zenon DEF Orchestrate

LEMMA RunTasksTypes ==
    ASSUME Types, NEW n \in Nodes, RunTasks(n), overlapped' \in BOOLEAN
    PROVE  Types'
<1> USE Constants DEF Types
<1>1. NodesOK'
  BY DEF NodesOK, RunTasks, Unborn, SetupOK, node_rows
<1>2. RoundsOK'
  <2>1. timer[n] \in 0..RoundTime
    BY DEF RoundsOK, RunTasks
  <2>2. ElectionRate - (RoundTime - timer[n]) \in 0..ElectionRate
    BY <2>1
  <2>3. timer' \in [Nodes -> 0..ElectionRate]
    BY <2>2 DEF RoundsOK, RunTasks
  <2>4. /\ pc'[n] = "tick" /\ nodes' = nodes /\ active_age' = active_age
        /\ \A m \in Nodes : m # n => pc'[m] = pc[m] /\ timer'[m] = timer[m]
    BY DEF RoundsOK, RunTasks, SetupOK, node_rows
  <2>5. nodes \subseteq Nodes
    BY DEF NodesOK
  <2> QED BY <2>3, <2>4, <2>5 DEF RoundsOK
<1>3. SetupOK'
  <2>1. \A m \in Nodes : IF pc'[m] = "setup" THEN TodoOK(m)' ELSE todo'[m] = <<>>
    BY UnchangedTodoOK DEF SetupOK, RunTasks, database, setup
  <2> QED BY <2>1 DEF SetupOK, RunTasks, setup
<1>4. TasksOK'
  <2>1. Orchestrate(n)
    BY DEF RunTasks
  <2>2. \A m \in Nodes : tasks'[m] # {} =>
          state'[m] = "Active" /\ pc'[m] \in {"tick", "elect", "orchestrate", "panicked"}
    <3> DEFINE rounds == {"tick", "elect", "orchestrate", "panicked"}
    <3>1. /\ pc[n] = "orchestrate" /\ pc'[n] = "tick"
          /\ \A m \in Nodes \ {n} : pc'[m] = pc[m]
      BY DEF RunTasks, SetupOK
    <3>2. ASSUME NEW m \in Nodes \ {n}, tasks'[m] # {}
          PROVE  state'[m] = "Active" /\ pc'[m] \in rounds
      <4>1. state'[m] = state[m] /\ tasks'[m] = tasks[m]
        BY <2>1, OrchestrateTypes
      <4> QED BY <3>1, <3>2, <4>1 DEF TasksOK
    <3>3. ASSUME tasks'[n] # {}  PROVE state'[n] = "Active"
      <4>1. \/ state'[n] = state[n] /\ tasks'[n] = tasks[n]
            \/ state'[n] = "Active"
        BY <2>1, <3>3, OrchestrateTypes
      <4> QED BY <3>3, <4>1 DEF TasksOK
    <3> QED BY <3>1, <3>2, <3>3
  <2>3. \A m \in Nodes : /\ loaded'[m].ingest # 0 => "ingester" \in tasks'[m] /\ cursors' # {}
                         /\ loaded'[m].block # 0 => "handlers" \in tasks'[m] /\ cursors' # {}
                         /\ loaded'[m].is_open => loaded'[m].block # 0
    BY <2>1, OrchestrateTypes DEF TasksOK, RunTasks, Nothing, database, index
  <2> QED BY <2>1, <2>2, <2>3, OrchestrateTypes DEF TasksOK, RunTasks
<1> QED BY <1>1, <1>2, <1>3, <1>4, UnchangedDatabaseOK, UnchangedEnvironmentOK DEF RunTasks

LEMMA PassSecondTypes ==
    ASSUME Types, PassSecond, overlapped' \in BOOLEAN
    PROVE  Types'
<1> USE Constants DEF Types
<1>1. NodesOK'
  BY DEF NodesOK, PassSecond, Unborn
<1>2. RoundsOK'
  <2>1. \A n \in nodes : pc[n] = "elect" => active_age[n] < MaxAge /\ timer[n] > 0
    BY DEF RoundsOK, PassSecond, NodesOK, IsDue
  <2>2. timer' \in [Nodes -> 0..ElectionRate]
    BY DEF RoundsOK, PassSecond
  <2>3. \A n \in Nodes : pc'[n] \in {"elect", "orchestrate"} => timer'[n] <= RoundTime
    BY DEF RoundsOK, PassSecond
  <2>4. \A n \in nodes' : pc'[n] = "elect" => active_age'[n] + timer'[n] <= RoundTime
    BY <2>1 DEF RoundsOK, PassSecond, NodesOK
  <2> QED BY <2>2, <2>3, <2>4 DEF RoundsOK
<1>3. SetupOK'
  <2>1. \A m \in Nodes : IF pc'[m] = "setup" THEN TodoOK(m)' ELSE todo'[m] = <<>>
    BY UnchangedTodoOK DEF SetupOK, PassSecond, database, setup
  <2> QED BY <2>1 DEF SetupOK, PassSecond, setup
<1>4. TasksOK'
  BY DEF TasksOK, PassSecond, running, database, index
<1> QED BY <1>1, <1>2, <1>3, <1>4, UnchangedDatabaseOK, UnchangedEnvironmentOK DEF PassSecond

LEMMA CrashTypes ==
    ASSUME Types, NEW n \in Nodes, Crash(n), overlapped' \in BOOLEAN
    PROVE  Types'
<1> USE Constants DEF Types
<1>1. NodesOK'
  BY DEF NodesOK, Crash, Unborn, SetupOK, node_rows, Alive
<1>2. RoundsOK'
  BY DEF RoundsOK, Crash, SetupOK, NodesOK, node_rows
<1>3. SetupOK'
  <2>1. \A m \in Nodes : IF pc'[m] = "setup" THEN TodoOK(m)' ELSE todo'[m] = <<>>
    BY UnchangedTodoOK DEF SetupOK, Crash, database
  <2> QED BY <2>1 DEF SetupOK, Crash, DefaultRootState, RootStates
<1>4. TasksOK'
  <2>1. cut_off' \in [Blocks -> Nat]
    BY CutOffTypes DEF Crash, SetState
  <2>2. /\ elected' \in [Nodes -> Nodes]
        /\ state' \in [Nodes -> {"Idle", "Active", "InActive", "Aborted"}]
        /\ tasks' \in [Nodes -> SUBSET Tasks]
        /\ \A m \in Nodes : tasks'[m] # {} =>
             state'[m] = "Active" /\ pc'[m] \in {"tick", "elect", "orchestrate", "panicked"}
    BY DEF TasksOK, Crash, SetState, SetupOK
  <2>3. loaded' \in [Nodes -> Loads] /\ loaded'[n] = Nothing /\ cursors' = cursors
        /\ \A m \in Nodes \ {n} : loaded'[m] = loaded[m] /\ tasks'[m] = tasks[m]
    BY DEF TasksOK, Crash, SetState, Nothing, Loads, database, index
  <2>4. \A m \in Nodes : /\ loaded'[m].ingest # 0 => "ingester" \in tasks'[m] /\ cursors' # {}
                         /\ loaded'[m].block # 0 => "handlers" \in tasks'[m] /\ cursors' # {}
                         /\ loaded'[m].is_open => loaded'[m].block # 0
    BY <2>3 DEF TasksOK, Nothing
  <2> QED BY <2>1, <2>2, <2>3, <2>4 DEF TasksOK
<1>5. EnvironmentOK'
  <2>1. recent' \in [Nodes -> BOOLEAN]
    BY DEF EnvironmentOK, Crash
  <2> QED BY <2>1 DEF EnvironmentOK, Crash
<1> QED BY <1>1, <1>2, <1>3, <1>4, <1>5, UnchangedDatabaseOK DEF Crash

LEMMA HeartbeatTypes ==
    ASSUME Types, NEW n \in Nodes, Heartbeat(n), overlapped' \in BOOLEAN
    PROVE  Types'
<1> USE Constants DEF Types
<1>1. NodesOK'
  BY DEF NodesOK, Heartbeat, Unborn, node_rows
<1>2. RoundsOK'
  BY DEF RoundsOK, Heartbeat, node_rows
<1>3. SetupOK'
  <2>1. \A m \in Nodes : IF pc'[m] = "setup" THEN TodoOK(m)' ELSE todo'[m] = <<>>
    BY UnchangedTodoOK DEF SetupOK, Heartbeat, database, setup
  <2> QED BY <2>1 DEF SetupOK, Heartbeat, setup
<1>4. TasksOK'
  BY DEF TasksOK, Heartbeat, running, database, index
<1>5. EnvironmentOK'
  <2>1. recent' \in [Nodes -> BOOLEAN]
    BY DEF EnvironmentOK, Heartbeat
  <2>2. lapses' \in 0..MaxLapses /\ crashes' \in 0..MaxCrashes
    BY DEF EnvironmentOK, Heartbeat
  <2> QED BY <2>1, <2>2 DEF EnvironmentOK
<1> QED BY <1>1, <1>2, <1>3, <1>4, <1>5, UnchangedDatabaseOK DEF Heartbeat

\* What the next statement of a setup says of those behind it.
LEMMA NextStatement ==
    ASSUME NEW n \in Nodes, TodoOK(n), todo[n] # <<>>
    PROVE  /\ \A i \in 1..5 : Head(todo[n]) = SetupStatements[i] =>
                Beginning(n, i) /\ (i >= 4 => root_states # <<>>)
           /\ \A i \in 1..4 : Head(todo[n]) = ResetStatements[i] =>
                root_states # <<>> /\ \E rest \in AfterReset : Resetting(n, i, rest)
           /\ Head(todo[n]) = "zero_side_effects" => root_states # <<>> /\ todo[n] = Zeroing
           /\ Head(todo[n]) = "append_root_state" => root_states # <<>> /\ todo[n] = Recording
           /\ \A i \in 1..4 : Head(todo[n]) = MigrationStatements[i] =>
                root_states # <<>> /\ Migrating(n, i)
<1>1. CASE \E i \in 1..5 : Beginning(n, i) /\ (i >= 4 => root_states # <<>>)
  <2>1. PICK i \in 1..5 : Beginning(n, i) /\ (i >= 4 => root_states # <<>>)
    BY <1>1
  <2>2. Head(todo[n]) = SetupStatements[i]
    BY <2>1, TodoForms
  <2>3. \A j \in 1..5 : SetupStatements[j] = SetupStatements[i] => j = i
    BY StatementSequences
  <2>4. /\ \A j \in 1..4 : /\ SetupStatements[i] # ResetStatements[j]
                          /\ SetupStatements[i] # MigrationStatements[j]
        /\ SetupStatements[i] \notin {"zero_side_effects", "append_root_state"}
    BY StatementSequences
  <2> QED BY <2>1, <2>2, <2>3, <2>4
<1>2. CASE root_states # <<>> /\ \E i \in 1..4, rest \in AfterReset : Resetting(n, i, rest)
  <2>1. PICK i \in 1..4, rest \in AfterReset : Resetting(n, i, rest)
    BY <1>2
  <2>2. Head(todo[n]) = ResetStatements[i]
    BY <2>1, TodoForms
  <2> QED BY <1>2, <2>1, <2>2, StatementSequences
<1>3. CASE root_states # <<>> /\ (todo[n] = Zeroing \/ todo[n] = Recording)
  <2>1. /\ \A i \in 1..5 : SetupStatements[i] \notin {"zero_side_effects", "append_root_state"}
        /\ \A i \in 1..4 :
              /\ ResetStatements[i] \notin {"zero_side_effects", "append_root_state"}
              /\ MigrationStatements[i] \notin {"zero_side_effects", "append_root_state"}
    BY StatementSequences
  <2>2. \/ todo[n] = Zeroing /\ Head(todo[n]) = "zero_side_effects"
        \/ todo[n] = Recording /\ Head(todo[n]) = "append_root_state"
    BY <1>3, RestSequences
  <2> QED BY <1>3, <2>1, <2>2
<1>4. CASE root_states # <<>> /\ \E i \in 1..5 : Migrating(n, i)
  <2>1. PICK i \in 1..4 : Migrating(n, i)
    BY <1>4, TodoForms
  <2>2. Head(todo[n]) = MigrationStatements[i]
    BY <2>1, TodoForms
  <2> QED BY <1>4, <2>1, <2>2, StatementSequences
<1> QED BY <1>1, <1>2, <1>3, <1>4 DEF TodoOK

\* The statements of each group of a setup
LEMMA DoesForms ==
    ASSUME Types, NEW n \in Nodes, NEW statement, Does(n, statement)
    PROVE  /\ pc[n] = "setup" /\ TodoOK(n) /\ todo[n] # <<>> /\ Head(todo[n]) = statement
           /\ todo \in [Nodes -> Seq(Statements)]
BY DEF Does, Types, SetupOK

\* The last root state outlives the pruning, and there always is one past the default.
LEMMA PrunedRootStatesProperties ==
    ASSUME NEW rows \in Seq(RootStates), rows # <<>>
    PROVE  /\ PrunedRootStates(rows) \in Seq(RootStates) /\ PrunedRootStates(rows) # <<>>
           /\ Last(PrunedRootStates(rows)) = Last(rows)
<1> USE Constants
<1>1. Len(rows) \in Nat \ {0} /\ \A i \in 1..Len(rows) : rows[i] \in RootStates
  BY EmptySeq, LenProperties, ElementOfSeq
<1>2. CASE Len(rows) > MaxRootStateCount
  <2> DEFINE from == Len(rows) - MaxRootStateCount + 1
             kept == SubSeq(rows, from, Len(rows))
  <2>1. from \in 1..Len(rows)
    BY <1>1, <1>2
  <2>2. /\ kept \in Seq(RootStates) /\ Len(kept) = Len(rows) - from + 1
        /\ \A i \in 1..Len(rows) - from + 1 : kept[i] = rows[from + i - 1]
    BY <1>1, <2>1, SubSeqProperties
  <2>3. kept # <<>> /\ kept[Len(kept)] = rows[Len(rows)]
    <3>1. Len(rows) - from + 1 \in Nat \ {0} /\ from + (Len(rows) - from + 1) - 1 = Len(rows)
      BY <1>1, <2>1
    <3> HIDE DEF kept, from
    <3> QED BY <2>2, <3>1, EmptySeq
  <2>4. PrunedRootStates(rows) = kept
    BY <1>2 DEF PrunedRootStates
  <2> QED BY <2>2, <2>3, <2>4 DEF Last
<1>3. CASE ~ (Len(rows) > MaxRootStateCount)
  BY <1>3 DEF PrunedRootStates
<1> QED BY <1>2, <1>3

LEMMA LastProperties ==
    /\ \A rows \in Seq(RootStates) : rows # <<>> => Last(rows) \in RootStates
    /\ \A rows \in Seq(RootStates) : \A r \in RootStates :
          /\ Append(rows, r) \in Seq(RootStates) /\ Append(rows, r) # <<>>
          /\ Last(Append(rows, r)) = r
    /\ \A r \in RootStates : /\ <<r>> \in Seq(RootStates) /\ <<r>> # <<>> /\ Last(<<r>>) = r
<1>1. ASSUME NEW rows \in Seq(RootStates), rows # <<>> PROVE Last(rows) \in RootStates
  <2>1. Len(rows) \in 1..Len(rows)
    BY <1>1, EmptySeq, LenProperties
  <2> QED BY <2>1, ElementOfSeq DEF Last
<1>2. ASSUME NEW rows \in Seq(RootStates), NEW r \in RootStates
      PROVE  /\ Append(rows, r) \in Seq(RootStates) /\ Append(rows, r) # <<>>
             /\ Last(Append(rows, r)) = r
  BY AppendProperties DEF Last
<1> QED BY <1>1, <1>2 DEF Last

\* What every statement of a setup leaves as it is
LEMMA StatementTypes ==
    ASSUME Types, NEW n \in Nodes, ExecuteStatement(n), overlapped' \in BOOLEAN,
           DatabaseOK', TodoOK(n)', todo' \in [Nodes -> Seq(Statements)],
           \A m \in Nodes \ {n} : todo'[m] = todo[m],
           pc[n] = "setup", root' \in [Nodes -> RootStates],
           root_states # <<>> => root_states' # <<>>,
           cursors # {} => cursors' # {}
    PROVE  Types'
<1> USE DEF Types, ExecuteStatement
<1>1. NodesOK'
  BY DEF NodesOK, node_rows, Unborn
<1>2. RoundsOK'
  BY DEF RoundsOK, node_rows
<1>3. SetupOK'
  <2>1. \A m \in Nodes : IF pc'[m] = "setup" THEN TodoOK(m)' ELSE todo'[m] = <<>>
    BY UnchangedTodoOK DEF SetupOK
  <2> QED BY <2>1 DEF SetupOK
<1>4. TasksOK'
  BY DEF TasksOK, running
<1> QED BY <1>1, <1>2, <1>3, <1>4, UnchangedEnvironmentOK

LEMMA CreateTableTypes ==
    ASSUME Types, NEW n \in Nodes, CreateTable(n)
    PROVE  DatabaseOK' /\ TodoOK(n)'
<1>1. PICK statement \in DOMAIN Creates :
        Does(n, statement) /\ Proceed(n) /\ tables' = tables \cup {Creates[statement]}
  BY DEF CreateTable
<1>2. Creates[statement] \in Tables /\ statement \notin {"maybe_reset", "default_root_state"}
  BY DEF Creates, Tables
<1>3. UNCHANGED <<root_states, root, cursors, events, versions, side_effects>>
  BY DEF CreateTable, index
<1>4. DatabaseOK'
  BY <1>1, <1>2, <1>3 DEF Types, DatabaseOK
<1>5. TodoOK(n)'
  BY <1>1, <1>2, <1>3, DoesForms, ProceedTodoOK
<1> QED BY <1>4, <1>5

LEMMA DropTableTypes ==
    ASSUME Types, NEW n \in Nodes, DropTable(n)
    PROVE  DatabaseOK' /\ TodoOK(n)'
<1>1. PICK statement \in DOMAIN Drops :
        /\ Does(n, statement) /\ Proceed(n) /\ tables' = tables \ {Drops[statement]}
        /\ events' = IF statement = "drop_events" THEN NoRows ELSE events
        /\ versions' = IF statement = "drop_states" THEN NoRows ELSE versions
  BY DEF DropTable
<1>2. statement \notin {"maybe_reset", "default_root_state"}
  BY DEF Drops
<1>3. UNCHANGED <<root_states, root, cursors, side_effects>>
  BY DEF DropTable
<1>4. NoRows \in [Blocks -> 0..2]
  BY DEF NoRows
<1>5. DatabaseOK'
  BY <1>1, <1>3, <1>4 DEF Types, DatabaseOK
<1>6. TodoOK(n)'
  BY <1>1, <1>2, <1>3, DoesForms, ProceedTodoOK
<1> QED BY <1>5, <1>6

LEMMA SetupRootStateTypes ==
    ASSUME Types, NEW n \in Nodes, SetupRootState(n)
    PROVE  /\ DatabaseOK' /\ TodoOK(n)' /\ root_states' # <<>>
           /\ root_states # <<>> => Last(root_states') = Last(root_states)
<1>1. DefaultRootState \in RootStates
  BY DEF DefaultRootState, RootStates
<1>2. root_states \in Seq(RootStates)
  BY DEF Types, DatabaseOK
<1>3. PICK statement \in {"default_root_state", "prune_root_states"} : Does(n, statement)
  BY DEF SetupRootState
<1>4. /\ root_states' \in Seq(RootStates) /\ root_states' # <<>>
      /\ root_states # <<>> => Last(root_states') = Last(root_states)
  <2>1. CASE /\ Does(n, "default_root_state")
             /\ root_states' = IF root_states = <<>> THEN <<DefaultRootState>> ELSE root_states
    BY <1>1, <1>2, <2>1
  <2>2. CASE Does(n, "prune_root_states") /\ root_states' = PrunedRootStates(root_states)
    <3>1. Head(todo[n]) = SetupStatements[4]
      BY <2>2, DoesForms, StatementSequences
    <3>2. root_states # <<>>
      BY <3>1, <2>2, DoesForms, NextStatement
    <3> QED BY <1>2, <2>2, <3>2, PrunedRootStatesProperties
  <2> QED BY <2>1, <2>2 DEF SetupRootState
<1>5. UNCHANGED <<tables, root, cursors, events, versions, side_effects>> /\ Proceed(n)
  BY DEF SetupRootState, index
<1>6. DatabaseOK'
  BY <1>4, <1>5 DEF Types, DatabaseOK
<1>7. TodoOK(n)'
  BY <1>3, <1>4, <1>5, DoesForms, ProceedTodoOK
<1> QED BY <1>4, <1>6, <1>7

LEMMA MaybeResetTypes ==
    ASSUME Types, NEW n \in Nodes, MaybeReset(n)
    PROVE  /\ Beginning(n, 5) /\ root_states # <<>> /\ TodoOK(n)'
           /\ todo'[n] \in Seq(Statements) /\ root' \in [Nodes -> RootStates]
<1> DEFINE last == Last(root_states)
<1>1. Beginning(n, 5) /\ root_states # <<>>
  <2>1. Does(n, "maybe_reset")
    BY DEF MaybeReset
  <2>2. Head(todo[n]) = SetupStatements[5]
    BY <2>1, DoesForms, StatementSequences
  <2> QED BY <2>1, <2>2, DoesForms, NextStatement
<1>2. last \in RootStates
  BY <1>1, LastProperties DEF Types, DatabaseOK
<1>3. UpdatedRootState(n, last) \in RootStates
  BY <1>2, Constants DEF UpdatedRootState, RootStates
<1>4. root' \in [Nodes -> RootStates]
  BY <1>3 DEF MaybeReset, Types, SetupOK
<1>5. todo'[n] = ResetPlan(n, last) \o MigrationStatements
  BY DEF MaybeReset, Types, SetupOK
<1>6. \/ todo'[n] = From(MigrationStatements, 1)
      \/ \E rest \in AfterReset : todo'[n] = From(ResetStatements, 1) \o rest
  BY <1>5, ResetPlanForms DEF AfterReset
<1>7. root_states' = root_states
  BY DEF MaybeReset, database
<1>8. TodoOK(n)'
  BY <1>1, <1>6, <1>7 DEF TodoOK, Migrating, Resetting
<1>9. todo'[n] \in Seq(Statements)
  BY <1>5, ResetPlanForms
<1> QED BY <1>1, <1>4, <1>8, <1>9

LEMMA AppendRootStateTypes ==
    ASSUME Types, NEW n \in Nodes, AppendRootState(n)
    PROVE  /\ todo[n] = Recording /\ root_states # <<>>
           /\ Last(root_states') = root[n]
           /\ DatabaseOK' /\ TodoOK(n)' /\ root_states' # <<>>
<1>1. Does(n, "append_root_state") /\ Proceed(n) /\ root_states' = Append(root_states, root[n])
  BY DEF AppendRootState
<1>2. todo[n] = Recording /\ root_states # <<>>
  BY <1>1, DoesForms, NextStatement
<1>3. /\ root_states' \in Seq(RootStates) /\ root_states' # <<>>
      /\ Last(root_states') = root[n]
  BY <1>1, LastProperties DEF Types, DatabaseOK, SetupOK
<1>4. UNCHANGED <<tables, cursors, events, versions, side_effects>>
  BY DEF AppendRootState, index
<1>5. DatabaseOK'
  BY <1>2, <1>3, <1>4 DEF Types, DatabaseOK
<1>6. TodoOK(n)'
  BY <1>1, <1>3, DoesForms, ProceedTodoOK
<1> QED BY <1>2, <1>3, <1>5, <1>6

LEMMA OneCursor ==
    ASSUME DatabaseOK
    PROVE  cursors = {} \/ \E c \in Cursors : cursors = {c}
<1>1. CASE cursors # {}
  <2>1. PICK c : c \in cursors
    BY <1>1
  <2>2. cursors = {c} /\ c \in Cursors
    BY <2>1 DEF DatabaseOK
  <2> QED BY <2>2
<1> QED BY <1>1

\* The cursors within their types, however one of them is set.
LEMMA CursorTypes ==
    ASSUME NEW c \in Cursors, NEW b \in Positions, NEW from \in 0..MaxBlockNumber + 1
    PROVE  /\ [c EXCEPT !.ingest = b] \in Cursors
           /\ [c EXCEPT !.ingest = b, !.handle = b] \in Cursors
           /\ [c EXCEPT !.side_effects = from] \in Cursors
           /\ [c EXCEPT !.handle = b] \in Cursors
           /\ [c EXCEPT !.handle = b, !.side_effects = from] \in Cursors
BY DEF Cursors

LEMMA UpdateCursorsTypes ==
    ASSUME Types, NEW n \in Nodes, UpdateCursors(n)
    PROVE  DatabaseOK' /\ TodoOK(n)' /\ (cursors # {} => cursors' # {})
<1> USE Constants
<1>1. PICK statement \in {"restart_cursors", "zero_side_effects", "insert_contract_addresses"} :
        Does(n, statement)
  BY DEF UpdateCursors
<1>2. Proceed(n) /\ UNCHANGED <<tables, root_states, root, events, versions, side_effects>>
  BY DEF UpdateCursors
<1>3. TodoOK(n)'
  BY <1>1, <1>2, DoesForms, ProceedTodoOK
<1> DEFINE Outcome == /\ cursors' \subseteq Cursors /\ \A c, d \in cursors' : c = d
                      /\ cursors' = {} => cursors = {}
                      /\ root_states = <<>> => cursors' = {}
<1>4. Outcome
  <2>1. CASE cursors' = RestartedCursors(cursors)
    <3>1. CASE cursors = {}
      BY <2>1, <3>1 DEF RestartedCursors
    <3>2. ASSUME NEW c \in Cursors, cursors = {c} PROVE Outcome
      <4>1. cursors' = {[c EXCEPT !.ingest = StartBlockNumber, !.handle = StartBlockNumber]}
        BY <2>1, <3>2 DEF RestartedCursors
      <4>2. [c EXCEPT !.ingest = StartBlockNumber, !.handle = StartBlockNumber] \in Cursors
        <5>1. StartBlockNumber \in Positions /\ 0 \in 0..MaxBlockNumber + 1
          BY DEF Positions
        <5> QED BY <5>1, CursorTypes
      <4>3. root_states # <<>>
        BY <3>2 DEF Types, DatabaseOK
      <4> QED BY <3>2, <4>1, <4>2, <4>3
    <3> QED BY <3>1, <3>2, OneCursor DEF Types
  <2>2. CASE cursors' = ZeroedSideEffects(cursors)
    <3>1. CASE cursors = {}
      BY <2>2, <3>1 DEF ZeroedSideEffects
    <3>2. ASSUME NEW c \in Cursors, cursors = {c} PROVE Outcome
      <4>1. cursors' = {[c EXCEPT !.side_effects = 0]}
        BY <2>2, <3>2 DEF ZeroedSideEffects
      <4>2. [c EXCEPT !.side_effects = 0] \in Cursors
        BY DEF Cursors
      <4>3. root_states # <<>>
        BY <3>2 DEF Types, DatabaseOK
      <4> QED BY <3>2, <4>1, <4>2, <4>3
    <3> QED BY <3>1, <3>2, OneCursor DEF Types
  <2>3. CASE Does(n, "insert_contract_addresses") /\ cursors' = InsertedAddress(cursors)
    <3>1. Head(todo[n]) = MigrationStatements[4]
      BY <2>3, DoesForms, StatementSequences
    <3>2. root_states # <<>>
      BY <2>3, <3>1, DoesForms, NextStatement
    <3>3. [ingest |-> StartBlockNumber, handle |-> StartBlockNumber, side_effects |-> 0]
             \in Cursors
      BY DEF Cursors, Positions
    <3> QED BY <2>3, <3>2, <3>3 DEF InsertedAddress, Types, DatabaseOK
  <2> QED BY <2>1, <2>2, <2>3 DEF UpdateCursors
<1>5. DatabaseOK'
  BY <1>2, <1>4 DEF Types, DatabaseOK
<1> QED BY <1>3, <1>4, <1>5

LEMMA ExecuteStatementTypes ==
    ASSUME Types, NEW n \in Nodes, ExecuteStatement(n), overlapped' \in BOOLEAN
    PROVE  Types'
<1>1. /\ todo \in [Nodes -> Seq(Statements)] /\ root \in [Nodes -> RootStates]
  BY DEF Types, SetupOK
<1>2. ASSUME NEW statement, Does(n, statement), Proceed(n)
      PROVE  /\ todo' \in [Nodes -> Seq(Statements)] /\ pc[n] = "setup"
             /\ \A m \in Nodes \ {n} : todo'[m] = todo[m]
  <2>1. Tail(todo[n]) \in Seq(Statements)
    BY <1>1, <1>2, DoesForms, HeadTailProperties
  <2> QED BY <1>1, <1>2, <2>1, DoesForms DEF Proceed
<1>3. CASE CreateTable(n)
  <2>1. PICK statement : Does(n, statement) /\ Proceed(n)
    BY <1>3 DEF CreateTable
  <2>2. UNCHANGED <<root_states, root, cursors>>
    BY <1>3 DEF CreateTable, index
  <2> QED BY <1>1, <1>2, <1>3, <2>1, <2>2, CreateTableTypes, StatementTypes
<1>4. CASE DropTable(n)
  <2>1. PICK statement : Does(n, statement) /\ Proceed(n)
    BY <1>4 DEF DropTable
  <2>2. UNCHANGED <<root_states, root, cursors>>
    BY <1>4 DEF DropTable
  <2> QED BY <1>1, <1>2, <1>4, <2>1, <2>2, DropTableTypes, StatementTypes
<1>5. CASE SetupRootState(n)
  <2>1. PICK statement : Does(n, statement) /\ Proceed(n)
    BY <1>5 DEF SetupRootState
  <2>2. UNCHANGED <<root, cursors>>
    BY <1>5 DEF SetupRootState, index
  <2> QED BY <1>1, <1>2, <1>5, <2>1, <2>2, SetupRootStateTypes, StatementTypes
<1>6. CASE MaybeReset(n)
  <2>1. /\ pc[n] = "setup" /\ UNCHANGED database
        /\ \A m \in Nodes \ {n} : todo'[m] = todo[m]
    BY <1>1, <1>6, DoesForms DEF MaybeReset
  <2>2. todo' \in [Nodes -> Seq(Statements)]
    BY <1>1, <1>6, MaybeResetTypes DEF MaybeReset
  <2>3. DatabaseOK' /\ UNCHANGED <<root_states, cursors>>
    BY <2>1, UnchangedDatabaseOK DEF Types, database, index
  <2> QED BY <1>6, <2>1, <2>2, <2>3, MaybeResetTypes, StatementTypes
<1>7. CASE AppendRootState(n)
  <2>1. Does(n, "append_root_state") /\ Proceed(n) /\ UNCHANGED <<root, cursors>>
    BY <1>7 DEF AppendRootState, index
  <2> QED BY <1>1, <1>2, <1>7, <2>1, AppendRootStateTypes, StatementTypes
<1>8. CASE UpdateCursors(n)
  <2>1. PICK statement : Does(n, statement) /\ Proceed(n)
    BY <1>8 DEF UpdateCursors
  <2>2. UNCHANGED <<root_states, root>>
    BY <1>8 DEF UpdateCursors
  <2> QED BY <1>1, <1>2, <1>8, <2>1, <2>2, UpdateCursorsTypes, StatementTypes
<1> QED BY <1>3, <1>4, <1>5, <1>6, <1>7, <1>8 DEF ExecuteStatement

\* What a task has loaded, however one of it is set
LEMMA LoadedIngest ==
    ASSUME loaded \in [Nodes -> Loads], NEW n \in Nodes, NEW b \in {0} \cup Blocks,
           loaded' = [loaded EXCEPT ![n].ingest = b]
    PROVE  /\ loaded' \in [Nodes -> Loads] /\ \A m \in Nodes \ {n} : loaded'[m] = loaded[m]
           /\ loaded'[n].ingest = b /\ loaded'[n].block = loaded[n].block
           /\ loaded'[n].side_effects = loaded[n].side_effects
           /\ loaded'[n].is_open = loaded[n].is_open
<1> DEFINE l == [loaded[n] EXCEPT !.ingest = b]
<1>1. loaded[n] \in Loads
  OBVIOUS
<1>2. /\ l \in Loads /\ l.ingest = b /\ l.block = loaded[n].block
      /\ l.side_effects = loaded[n].side_effects /\ l.is_open = loaded[n].is_open
  BY <1>1 DEF Loads
<1>3. loaded' = [loaded EXCEPT ![n] = l]
  OBVIOUS
<1> HIDE DEF l
<1> QED BY <1>2, <1>3

LEMMA LoadedBlock ==
    ASSUME loaded \in [Nodes -> Loads], NEW n \in Nodes, NEW b \in {0} \cup Blocks,
           NEW from \in 0..MaxBlockNumber + 1,
           loaded' = [loaded EXCEPT ![n].block = b, ![n].side_effects = from]
    PROVE  /\ loaded' \in [Nodes -> Loads] /\ \A m \in Nodes \ {n} : loaded'[m] = loaded[m]
           /\ loaded'[n].ingest = loaded[n].ingest
           /\ loaded'[n].block = b /\ loaded'[n].side_effects = from
           /\ loaded'[n].is_open = loaded[n].is_open
<1> DEFINE l == [loaded[n] EXCEPT !.block = b, !.side_effects = from]
<1>1. loaded[n] \in Loads
  OBVIOUS
<1>2. /\ l \in Loads /\ l.ingest = loaded[n].ingest /\ l.block = b /\ l.side_effects = from
      /\ l.is_open = loaded[n].is_open
  BY <1>1 DEF Loads
<1>3. loaded' = [loaded EXCEPT ![n] = l]
  OBVIOUS
<1> HIDE DEF l
<1> QED BY <1>2, <1>3

\* A transaction opened, and one committed
LEMMA Opened ==
    ASSUME loaded \in [Nodes -> Loads], NEW n \in Nodes,
           loaded' = [loaded EXCEPT ![n].is_open = TRUE]
    PROVE  /\ loaded' \in [Nodes -> Loads] /\ \A m \in Nodes \ {n} : loaded'[m] = loaded[m]
           /\ loaded'[n].ingest = loaded[n].ingest /\ loaded'[n].block = loaded[n].block
           /\ loaded'[n].side_effects = loaded[n].side_effects /\ loaded'[n].is_open
<1> DEFINE l == [loaded[n] EXCEPT !.is_open = TRUE]
<1>1. loaded[n] \in Loads
  OBVIOUS
<1>2. /\ l \in Loads /\ l.ingest = loaded[n].ingest /\ l.block = loaded[n].block
      /\ l.side_effects = loaded[n].side_effects /\ l.is_open
  BY <1>1 DEF Loads
<1>3. loaded' = [loaded EXCEPT ![n] = l]
  OBVIOUS
<1> HIDE DEF l
<1> QED BY <1>2, <1>3

LEMMA Closed ==
    ASSUME loaded \in [Nodes -> Loads], NEW n \in Nodes,
           loaded' = [loaded EXCEPT ![n].block = 0, ![n].side_effects = 0, ![n].is_open = FALSE]
    PROVE  /\ loaded' \in [Nodes -> Loads] /\ \A m \in Nodes \ {n} : loaded'[m] = loaded[m]
           /\ loaded'[n].ingest = loaded[n].ingest /\ loaded'[n].block = 0
           /\ ~ loaded'[n].is_open
<1> DEFINE l == [loaded[n] EXCEPT !.block = 0, !.side_effects = 0, !.is_open = FALSE]
<1>1. loaded[n] \in Loads /\ 0 \in 0..MaxBlockNumber + 1
  BY Constants
<1>2. l \in Loads /\ l.ingest = loaded[n].ingest /\ l.block = 0 /\ ~ l.is_open
  BY <1>1 DEF Loads
<1>3. loaded' = [loaded EXCEPT ![n] = l]
  OBVIOUS
<1> HIDE DEF l
<1> QED BY <1>2, <1>3

\* The rows of a block once it is indexed
LEMMA OneMoreTypes ==
    ASSUME NEW b \in Blocks
    PROVE  /\ \A rows \in [Blocks -> 0..2] : [rows EXCEPT ![b] = AtMostTwo(@ + 1)]
                                               \in [Blocks -> 0..2]
           /\ \A runs \in [Blocks -> Nat] : [runs EXCEPT ![b] = @ + 1] \in [Blocks -> Nat]
<1>1. \A k \in 0..2 : AtMostTwo(k + 1) \in 0..2
  BY DEF AtMostTwo
<1>2. ASSUME NEW rows \in [Blocks -> 0..2]
      PROVE  [rows EXCEPT ![b] = AtMostTwo(@ + 1)] \in [Blocks -> 0..2]
  BY <1>1
<1>3. ASSUME NEW runs \in [Blocks -> Nat]
      PROVE  [runs EXCEPT ![b] = @ + 1] \in [Blocks -> Nat]
  OBVIOUS
<1> QED BY <1>2, <1>3

\* A cursor at b moved past it
LEMMA MovedCursors ==
    ASSUME DatabaseOK, NEW b \in Blocks, NEW from \in 0..MaxBlockNumber + 1, cursors # {}
    PROVE  /\ {[c EXCEPT !.ingest = b + 1] : c \in cursors} # {}
           /\ {[c EXCEPT !.ingest = b + 1] : c \in cursors} \subseteq Cursors
           /\ \A c, d \in {[x EXCEPT !.ingest = b + 1] : x \in cursors} : c = d
           /\ {HandledCursor(c, b, from) : c \in cursors} # {}
           /\ {HandledCursor(c, b, from) : c \in cursors} \subseteq Cursors
           /\ \A c, d \in {HandledCursor(x, b, from) : x \in cursors} : c = d
<1>1. PICK c \in Cursors : cursors = {c}
  BY OneCursor
<1>0. b + 1 \in Positions /\ b + 1 \in 0..MaxBlockNumber + 1
  BY Constants DEF Positions, Blocks
<1>2. [c EXCEPT !.ingest = b + 1] \in Cursors
  BY <1>0, CursorTypes
<1>3. HandledCursor(c, b, from) \in Cursors
  <2>1. CASE b + 1 > from
    <3>1. HandledCursor(c, b, from) = [c EXCEPT !.handle = b + 1, !.side_effects = b + 1]
      BY <2>1 DEF HandledCursor, Cursors
    <3> DEFINE next == b + 1
    <3>2. next \in Positions /\ next \in 0..MaxBlockNumber + 1
      BY <1>0
    <3> HIDE DEF next
    <3>3. [c EXCEPT !.handle = next, !.side_effects = next] \in Cursors
      BY <3>2, CursorTypes
    <3> QED BY <3>1, <3>3 DEF next
  <2>2. CASE ~ (b + 1 > from)
    <3>1. HandledCursor(c, b, from) = [c EXCEPT !.handle = b + 1]
      BY <2>2 DEF HandledCursor, Cursors
    <3> QED BY <3>1, <1>0, CursorTypes
  <2> QED BY <2>1, <2>2
<1>4. {[x EXCEPT !.ingest = b + 1] : x \in cursors} = {[c EXCEPT !.ingest = b + 1]}
  BY <1>1
<1>5. {HandledCursor(x, b, from) : x \in cursors} = {HandledCursor(c, b, from)}
  BY <1>1
<1> QED BY <1>2, <1>3, <1>4, <1>5

\* What a step of a task leaves: its rows, and what it has loaded, within their types
LEMMA TaskTypes ==
    ASSUME Types, NEW n \in Nodes, Index(n), overlapped' \in BOOLEAN,
           DatabaseOK', cursors # {} => cursors' # {},
           tasks' \in [Nodes -> SUBSET Tasks], tasks'[n] \subseteq tasks[n],
           loaded' \in [Nodes -> Loads],
           \A m \in Nodes \ {n} : tasks'[m] = tasks[m] /\ loaded'[m] = loaded[m],
           loaded'[n].ingest # 0 => "ingester" \in tasks'[n] /\ cursors' # {},
           loaded'[n].block # 0 => "handlers" \in tasks'[n] /\ cursors' # {},
           loaded'[n].is_open => loaded'[n].block # 0
    PROVE  Types'
<1> USE DEF Types, Index
<1>1. NodesOK'
  BY DEF NodesOK, node_rows, Unborn
<1>2. RoundsOK'
  BY DEF RoundsOK, node_rows
<1>3. SetupOK'
  <2>1. \A m \in Nodes : IF pc'[m] = "setup" THEN TodoOK(m)' ELSE todo'[m] = <<>>
    BY UnchangedTodoOK DEF SetupOK, setup
  <2> QED BY <2>1 DEF SetupOK, setup
<1>4. TasksOK'
  <2>1. UNCHANGED <<elected, state, pc, cut_off>>
    OBVIOUS
  <2>2. \A m \in Nodes : tasks'[m] \subseteq tasks[m]
    OBVIOUS
  <2>3. \A m \in Nodes : /\ loaded'[m].ingest # 0 => "ingester" \in tasks'[m] /\ cursors' # {}
                         /\ loaded'[m].block # 0 => "handlers" \in tasks'[m] /\ cursors' # {}
                         /\ loaded'[m].is_open => loaded'[m].block # 0
    BY DEF TasksOK
  <2> HIDE DEF Index
  <2> QED BY <2>1, <2>2, <2>3 DEF TasksOK
<1> QED BY <1>1, <1>2, <1>3, <1>4, UnchangedEnvironmentOK

LEMMA PanicTaskTypes ==
    ASSUME Types, NEW n \in Nodes, NEW task \in Tasks, PanicTask(n, task),
           task = "handlers" => ~ loaded[n].is_open
    PROVE  /\ tasks' \in [Nodes -> SUBSET Tasks] /\ tasks'[n] \subseteq tasks[n]
           /\ loaded' \in [Nodes -> Loads]
           /\ \A m \in Nodes \ {n} : tasks'[m] = tasks[m] /\ loaded'[m] = loaded[m]
           /\ loaded'[n].ingest # 0 =>
                 loaded'[n].ingest = loaded[n].ingest /\ "ingester" \in tasks'[n]
           /\ loaded'[n].block # 0 =>
                 /\ loaded'[n].block = loaded[n].block /\ "handlers" \in tasks'[n]
                 /\ loaded'[n].side_effects = loaded[n].side_effects
           /\ loaded'[n].is_open => loaded'[n].block # 0
           /\ loaded'[n].is_open = loaded[n].is_open
           /\ UNCHANGED index
<1>1. /\ tasks' = [tasks EXCEPT ![n] = @ \ {task}] /\ UNCHANGED index
      /\ tasks \in [Nodes -> SUBSET Tasks]
      /\ loaded[n].ingest # 0 => "ingester" \in tasks[n]
      /\ loaded[n].block # 0 => "handlers" \in tasks[n]
      /\ loaded[n].is_open => loaded[n].block # 0
  BY DEF PanicTask, Types, TasksOK
<1>2. CASE task = "ingester"
  <2>1. loaded' = [loaded EXCEPT ![n].ingest = 0]
    BY <1>2 DEF PanicTask
  <2>2. 0 \in 0..MaxBlockNumber + 1
    BY Constants
  <2>3. /\ loaded' \in [Nodes -> Loads] /\ \A m \in Nodes \ {n} : loaded'[m] = loaded[m]
        /\ loaded'[n].ingest = 0 /\ loaded'[n].block = loaded[n].block
        /\ loaded'[n].side_effects = loaded[n].side_effects
        /\ loaded'[n].is_open = loaded[n].is_open
    BY <2>1, LoadedIngest DEF Types, TasksOK
  <2> QED BY <1>1, <1>2, <2>3
<1>3. CASE task = "handlers"
  <2>1. loaded' = [loaded EXCEPT ![n].block = 0, ![n].side_effects = 0]
    BY <1>3 DEF PanicTask, Types, TasksOK, Loads
  <2>2. 0 \in 0..MaxBlockNumber + 1
    BY Constants
  <2>3. /\ loaded' \in [Nodes -> Loads] /\ \A m \in Nodes \ {n} : loaded'[m] = loaded[m]
        /\ loaded'[n].ingest = loaded[n].ingest /\ loaded'[n].block = 0
        /\ loaded'[n].is_open = loaded[n].is_open
    BY <2>1, <2>2, LoadedBlock DEF Types, TasksOK
  <2> QED BY <1>1, <1>3, <2>3
<1> QED BY <1>2, <1>3 DEF Tasks

LEMMA LoadToIngestTypes ==
    ASSUME Types, NEW n \in Nodes, LoadToIngest(n), Index(n), overlapped' \in BOOLEAN
    PROVE  Types'
<1> USE Constants
<1>1. PICK c \in cursors : /\ c.ingest <= MaxBlockNumber
                           /\ loaded' = [loaded EXCEPT ![n].ingest = c.ingest]
  BY DEF LoadToIngest
<1>2. c.ingest \in Blocks
  BY <1>1 DEF Types, DatabaseOK, Cursors, Positions, Blocks
<1>3. UNCHANGED <<tables, root_states, tasks, index, cursors>>
  BY DEF LoadToIngest, Index, index
<1>4. DatabaseOK'
  BY <1>3, UnchangedDatabaseOK DEF Types, database
<1>5. /\ loaded' \in [Nodes -> Loads]
      /\ \A m \in Nodes \ {n} : loaded'[m] = loaded[m]
      /\ loaded'[n].block = loaded[n].block
      /\ loaded'[n].is_open => loaded'[n].block # 0
  BY <1>1, <1>2, LoadedIngest DEF Types, TasksOK
<1>6. "ingester" \in tasks[n] /\ tasks \in [Nodes -> SUBSET Tasks]
      /\ (loaded[n].block # 0 => "handlers" \in tasks[n])
  BY DEF LoadToIngest, Types, TasksOK
<1> QED BY <1>1, <1>3, <1>4, <1>5, <1>6, TaskTypes

LEMMA IngestTypes ==
    ASSUME Types, NEW n \in Nodes, Ingest(n), Index(n), overlapped' \in BOOLEAN
    PROVE  Types'
<1> USE Constants
<1> DEFINE b == loaded[n].ingest
<1>1. b \in Blocks /\ cursors # {} /\ "ingester" \in tasks[n]
      /\ (loaded[n].block # 0 => "handlers" \in tasks[n])
      /\ tasks \in [Nodes -> SUBSET Tasks]
  BY DEF Ingest, Types, TasksOK, Loads
<1>2. UNCHANGED <<tables, root_states>>
  BY DEF Index
<1>3. CASE PanicTask(n, "ingester")
  <2>1. "ingester" \in Tasks
    BY DEF Tasks
  <2>2. UNCHANGED index /\ UNCHANGED cursors
    BY <1>3 DEF PanicTask, index
  <2>3. DatabaseOK'
    BY <1>2, <2>2, UnchangedDatabaseOK DEF Types, database
  <2> QED BY <1>1, <1>3, <2>1, <2>2, <2>3, PanicTaskTypes, TaskTypes
<1>4. CASE /\ events' = [events EXCEPT ![b] = AtMostTwo(@ + 1)]
           /\ cursors' = {[c EXCEPT !.ingest = b + 1] : c \in cursors}
           /\ loaded' = [loaded EXCEPT ![n].ingest = 0]
           /\ UNCHANGED <<tasks, versions, side_effects>>
  <2>1. events' \in [Blocks -> 0..2]
    BY <1>1, <1>4, OneMoreTypes DEF Types, DatabaseOK
  <2>2. 0 \in 0..MaxBlockNumber + 1
    OBVIOUS
  <2>3. cursors' # {} /\ cursors' \subseteq Cursors /\ \A c, d \in cursors' : c = d
    <3> HIDE DEF b
    <3> QED BY <1>1, <1>4, <2>2, MovedCursors DEF Types
  <2>4. root_states # <<>>
    BY <1>1 DEF Types, DatabaseOK
  <2>5. DatabaseOK'
    BY <1>2, <1>4, <2>1, <2>3, <2>4 DEF Types, DatabaseOK
  <2>6. /\ loaded' \in [Nodes -> Loads]
        /\ \A m \in Nodes \ {n} : loaded'[m] = loaded[m]
        /\ loaded'[n].ingest = 0 /\ loaded'[n].block = loaded[n].block
        /\ loaded'[n].is_open => loaded'[n].block # 0
    BY <1>4, LoadedIngest DEF Types, TasksOK
  <2> QED BY <1>1, <1>4, <2>3, <2>5, <2>6, TaskTypes
<1> QED BY <1>3, <1>4 DEF Ingest

LEMMA LoadToHandleTypes ==
    ASSUME Types, NEW n \in Nodes, LoadToHandle(n), Index(n), overlapped' \in BOOLEAN
    PROVE  Types'
<1> USE Constants
<1>1. /\ "handlers" \in tasks[n] /\ tasks \in [Nodes -> SUBSET Tasks]
      /\ loaded[n].ingest # 0 => "ingester" \in tasks[n] /\ cursors # {}
      /\ loaded[n].block = 0 /\ ~ loaded[n].is_open
  BY DEF LoadToHandle, Types, TasksOK
<1>2. UNCHANGED <<tables, root_states, index, cursors>>
  BY DEF LoadToHandle, Index, PanicTask, index
<1>3. DatabaseOK'
  BY <1>2, UnchangedDatabaseOK DEF Types, database
<1>4. CASE PanicTask(n, "handlers")
  <2>1. "handlers" \in Tasks
    BY DEF Tasks
  <2> QED BY <1>1, <1>2, <1>3, <1>4, <2>1, PanicTaskTypes, TaskTypes
<1>5. CASE /\ \E c \in cursors, b \in Blocks :
                 /\ IsNextToHandle(b, c)
                 /\ loaded' = [loaded EXCEPT ![n].block = b, ![n].side_effects = c.side_effects]
           /\ UNCHANGED <<tasks, index>>
  <2>1. PICK c \in cursors, b \in Blocks :
           loaded' = [loaded EXCEPT ![n].block = b, ![n].side_effects = c.side_effects]
    BY <1>5
  <2>2. c.side_effects \in 0..MaxBlockNumber + 1
    BY DEF Types, DatabaseOK, Cursors
  <2>3. /\ loaded' \in [Nodes -> Loads]
        /\ \A m \in Nodes \ {n} : loaded'[m] = loaded[m]
        /\ loaded'[n].ingest = loaded[n].ingest
        /\ ~ loaded'[n].is_open
    BY <1>1, <2>1, <2>2, LoadedBlock DEF Types, TasksOK
  <2> QED BY <1>1, <1>2, <1>3, <1>5, <2>3, TaskTypes
<1> QED BY <1>4, <1>5 DEF LoadToHandle

LEMMA RunHandlersTypes ==
    ASSUME Types, NEW n \in Nodes, RunHandlers(n), Index(n), overlapped' \in BOOLEAN
    PROVE  Types'
<1> USE Constants
<1> DEFINE b == loaded[n].block
           from == loaded[n].side_effects
<1>1. b \in Blocks /\ b # 0 /\ cursors # {} /\ "handlers" \in tasks[n]
      /\ (loaded[n].ingest # 0 => "ingester" \in tasks[n])
      /\ tasks \in [Nodes -> SUBSET Tasks] /\ from \in 0..MaxBlockNumber + 1
      /\ ~ loaded[n].is_open
  BY DEF RunHandlers, Types, TasksOK, Loads
<1>2. UNCHANGED <<tables, root_states>>
  BY DEF Index
<1>3. CASE PanicTask(n, "handlers")
  <2>1. "handlers" \in Tasks
    BY DEF Tasks
  <2>2. UNCHANGED index /\ UNCHANGED cursors
    BY <1>3 DEF PanicTask, index
  <2>3. DatabaseOK'
    BY <1>2, <2>2, UnchangedDatabaseOK DEF Types, database
  <2> QED BY <1>1, <1>3, <2>1, <2>2, <2>3, PanicTaskTypes, TaskTypes
<1>4. CASE /\ loaded' = [loaded EXCEPT ![n].is_open = TRUE]
           /\ side_effects' = IF RunsSideEffects(b, from)
                              THEN [side_effects EXCEPT ![b] = @ + 1] ELSE side_effects
           /\ UNCHANGED <<tasks, cursors, events, versions>>
  <2>1. side_effects' \in [Blocks -> Nat]
    <3>1. CASE RunsSideEffects(b, from)
      BY <1>1, <1>4, <3>1, OneMoreTypes DEF Types, DatabaseOK
    <3>2. CASE ~ RunsSideEffects(b, from)
      BY <1>4, <3>2 DEF Types, DatabaseOK
    <3> QED BY <3>1, <3>2
  <2>2. root_states # <<>>
    BY <1>1 DEF Types, DatabaseOK
  <2>3. DatabaseOK'
    BY <1>1, <1>2, <1>4, <2>1, <2>2 DEF Types, DatabaseOK
  <2>4. /\ loaded' \in [Nodes -> Loads]
        /\ \A m \in Nodes \ {n} : loaded'[m] = loaded[m]
        /\ loaded'[n].block = b /\ loaded'[n].ingest = loaded[n].ingest
    BY <1>4, Opened DEF Types, TasksOK
  <2> QED BY <1>1, <1>4, <2>3, <2>4, TaskTypes
<1> QED BY <1>3, <1>4 DEF RunHandlers

LEMMA CommitHandledTypes ==
    ASSUME Types, NEW n \in Nodes, CommitHandled(n), Index(n), overlapped' \in BOOLEAN
    PROVE  Types'
<1> USE Constants
<1> DEFINE b == loaded[n].block
           from == loaded[n].side_effects
<1>1. b \in Blocks /\ cursors # {} /\ "handlers" \in tasks[n]
      /\ (loaded[n].ingest # 0 => "ingester" \in tasks[n])
      /\ tasks \in [Nodes -> SUBSET Tasks] /\ from \in 0..MaxBlockNumber + 1
  BY DEF CommitHandled, Types, TasksOK, Loads
<1>2. UNCHANGED <<tables, root_states>>
  BY DEF Index
<1>3. /\ versions' = [versions EXCEPT ![b] = AtMostTwo(@ + 1)]
      /\ cursors' = {HandledCursor(c, b, from) : c \in cursors}
      /\ UNCHANGED <<tasks, events, side_effects>>
  BY DEF CommitHandled
<1>4. versions' \in [Blocks -> 0..2]
  BY <1>1, <1>3, OneMoreTypes DEF Types, DatabaseOK
<1>5. cursors' # {} /\ cursors' \subseteq Cursors /\ \A c, d \in cursors' : c = d
  <2> HIDE DEF b, from
  <2> QED BY <1>1, <1>3, MovedCursors DEF Types
<1>6. root_states # <<>>
  BY <1>1 DEF Types, DatabaseOK
<1>7. DatabaseOK'
  BY <1>2, <1>3, <1>4, <1>5, <1>6 DEF Types, DatabaseOK
<1>8. /\ loaded' \in [Nodes -> Loads]
      /\ \A m \in Nodes \ {n} : loaded'[m] = loaded[m]
      /\ loaded'[n].block = 0 /\ loaded'[n].ingest = loaded[n].ingest
      /\ ~ loaded'[n].is_open
  BY Closed DEF CommitHandled, Types, TasksOK
<1> QED BY <1>1, <1>3, <1>5, <1>7, <1>8, TaskTypes

LEMMA StepTypes ==
    ASSUME Types, Next
    PROVE  Types'
<1>1. overlapped' \in BOOLEAN
  BY DEF Next, Types, EnvironmentOK
<1>2. CASE PassSecond
  BY <1>1, <1>2, PassSecondTypes
<1>3. ASSUME NEW n \in Nodes,
             SetupNodes(n) \/ Boot(n) \/ Round(n) \/ Index(n) \/ Crash(n) \/ Heartbeat(n)
      PROVE  Types'
  <2>1. CASE SetupNodes(n) \/ Boot(n)
    BY <1>1, <2>1, SetupNodesTypes, CreateNodeTypes, StartSetupTypes, ExecuteStatementTypes,
       StartLoopTypes DEF Boot
  <2>2. CASE Round(n)
    BY <1>1, <2>2, KeepNodeActiveTypes, ElectTypes, RunTasksTypes DEF Round
  <2>3. CASE Index(n)
    <3>1. \/ LoadToIngest(n) \/ Ingest(n) \/ LoadToHandle(n) \/ RunHandlers(n)
          \/ CommitHandled(n)
      BY <2>3 DEF Index
    <3> QED BY <1>1, <2>3, <3>1, LoadToIngestTypes, IngestTypes, LoadToHandleTypes,
               RunHandlersTypes, CommitHandledTypes
  <2>4. CASE Crash(n) \/ Heartbeat(n)
    BY <1>1, <2>4, CrashTypes, HeartbeatTypes
  <2> QED BY <1>3, <2>1, <2>2, <2>3, <2>4
<1> QED BY <1>2, <1>3 DEF Next, Step

LEMMA NextTypes ==
    ASSUME Types, [Next]_vars
    PROVE  Types'
<1>1. CASE UNCHANGED vars
  <2>1. UNCHANGED <<nodes, active_age, inserted_at, this_second, tables, root_states, cursors,
                    events, versions, side_effects, pc, timer, todo, root, elected, state,
                    tasks, loaded, cut_off, recent, crashes, lapses, overlapped>>
    BY <1>1 DEF vars, node_rows, database, index, setup, running, environment
  <2>2. \A n \in Nodes : TodoOK(n) => TodoOK(n)'
    BY <2>1, UnchangedTodoOK
  <2>3. NodesOK' /\ RoundsOK'
    BY <2>1 DEF Types, NodesOK, RoundsOK, Unborn
  <2>4. DatabaseOK' /\ EnvironmentOK'
    BY <2>1 DEF Types, DatabaseOK, EnvironmentOK
  <2>5. SetupOK' /\ TasksOK'
    BY <2>1, <2>2 DEF Types, SetupOK, TasksOK
  <2> QED BY <2>3, <2>4, <2>5 DEF Types
<1> QED BY <1>1, StepTypes

LEMMA TypesTypeOK == Types => TypeOK
<1> SUFFICES ASSUME Types PROVE TypeOK
  OBVIOUS
<1> USE Constants
<1>1. /\ nodes \subseteq Nodes /\ active_age \in [Nodes -> 0..MaxAge]
      /\ inserted_at \in [Nodes -> 0..NodeCount] /\ this_second \in 1..NodeCount + 1
  BY DEF Types, NodesOK, Nodes
<1>2. Cardinality(cursors) <= 1
  <2>1. CASE cursors = {}
    <3>1. Cardinality(cursors) = 0
      BY <2>1, FS_EmptySet, Zenon
    <3> QED BY <3>1
  <2>2. ASSUME NEW c, cursors = {c} PROVE Cardinality(cursors) <= 1
    <3>1. Cardinality(cursors) = 1
      BY <2>2, FS_Singleton, Zenon
    <3> QED BY <3>1
  <2> QED BY <2>1, <2>2, OneCursor DEF Types
<1>3. cursors \subseteq [ingest : Nat, handle : Nat, side_effects : Nat]
  <2>1. Positions \subseteq Nat /\ 0..MaxBlockNumber + 1 \subseteq Nat
    BY DEF Positions
  <2> QED BY <2>1 DEF Types, DatabaseOK, Cursors
<1>4. /\ tables \subseteq Tables
      /\ root_states \in Seq([reset_count : Nat, reset_including_side_effects_count : Nat])
      /\ events \in [Blocks -> 0..2] /\ versions \in [Blocks -> 0..2]
      /\ side_effects \in [Blocks -> Nat]
  BY DEF Types, DatabaseOK, RootStates
<1>5. /\ pc \in [Nodes -> {"unborn", "joining", "waiting", "setup", "tick", "elect",
                           "orchestrate", "panicked", "dead"}]
      /\ timer \in [Nodes -> 0..ElectionRate]
      /\ \A n \in Nodes : todo[n] # <<>> => pc[n] = "setup"
      /\ root \in [Nodes -> [reset_count : Nat, reset_including_side_effects_count : Nat]]
  BY DEF Types, RoundsOK, SetupOK, RootStates
<1>6. /\ elected \in [Nodes -> Nodes]
      /\ state \in [Nodes -> {"Idle", "Active", "InActive", "Aborted"}]
      /\ tasks \in [Nodes -> SUBSET Tasks]
      /\ \A n \in Nodes : tasks[n] # {} => state[n] = "Active"
      /\ loaded \in [Nodes -> [ingest : {0} \cup Blocks, block : {0} \cup Blocks,
                               side_effects : 0..MaxBlockNumber + 1, is_open : BOOLEAN]]
      /\ cut_off \in [Blocks -> Nat]
  BY DEF Types, TasksOK, Loads
<1>7. /\ recent \in [Nodes -> BOOLEAN] /\ overlapped \in BOOLEAN
      /\ crashes \in 0..MaxCrashes /\ lapses \in 0..MaxLapses
  BY DEF Types, EnvironmentOK
<1> QED BY <1>1, <1>2, <1>3, <1>4, <1>5, <1>6, <1>7 DEF TypeOK

\* Every variable of every reachable state lies within its type.
THEOREM TypeCorrect == Spec => []TypeOK
<1>1. Spec => []Types
  BY InitTypes, NextTypes, PTL DEF Spec
<1> QED BY <1>1, TypesTypeOK, PTL

\* A node whose row is still there is active when it elects, however slow its round:
\* what keep_node_active comes first for, in the loop of lib.rs.
THEOREM ActiveWhenElecting == Spec => []ActiveBeforeElection
<1>1. Spec => []Types
  BY InitTypes, NextTypes, PTL DEF Spec
<1>2. Types => ActiveBeforeElection
  <2> SUFFICES ASSUME Types, NEW n \in nodes, pc[n] = "elect"
               PROVE  n \in ActiveNodes
    BY DEF ActiveBeforeElection
  <2>1. /\ active_age[n] + timer[n] <= RoundTime
        /\ active_age[n] \in Nat /\ timer[n] \in Nat
    BY Constants DEF Types, NodesOK, RoundsOK
  <2> QED BY <2>1, Constants DEF ActiveNodes
<1> QED BY <1>1, <1>2, PTL

-----------------------------------------------------------------------------
(* Resets *)

LEMMA InitResetInv == Init => ResetInv
<1> SUFFICES ASSUME Init PROVE ResetInv
  OBVIOUS
<1>1. Alone
  BY DEF Init, Alone, Writers, Booting
<1>2. IndexInv
  BY DEF Init, IndexInv, Clean
<1>3. SideEffectsInv
  BY DEF Init, SideEffectsInv
<1>4. \A n \in Nodes : (pc[n] = "setup" => SetupInv(n)) /\ LoadedInv(n)
  BY DEF Init, LoadedInv, Nothing
<1> QED BY <1>1, <1>2, <1>3, <1>4 DEF ResetInv

LEMMA AtMostOne ==
    ASSUME NEW S \in SUBSET Nodes, ~ (Cardinality(S) > 1), NEW x \in S, NEW y \in S
    PROVE  x = y
<1> SUFFICES ASSUME x # y PROVE FALSE
  OBVIOUS
<1>1. IsFiniteSet(S)
  BY Constants, FS_Subset
<1>2. {x, y} \subseteq S /\ IsFiniteSet({x}) /\ Cardinality({x}) = 1 /\ y \notin {x}
  BY FS_Singleton
<1>3. IsFiniteSet({x} \cup {y}) /\ Cardinality({x} \cup {y}) = 2
  BY <1>2, FS_AddElement
<1>4. Cardinality({x} \cup {y}) <= Cardinality(S)
  BY <1>1, <1>2, FS_Subset
<1>5. Cardinality(S) \in Nat
  BY <1>1, FS_CardinalityType
<1> QED BY <1>3, <1>4, <1>5

\* Two nodes never have been writing at once if they have not after this step.
LEMMA StillAlone ==
    ASSUME Next, ~ overlapped'
    PROVE  ~ overlapped /\ Alone'
<1>1. ~ overlapped /\ ~ Overlap'
  BY DEF Next
<1>2. ~ (Cardinality(Writers') > 1) /\ ~ (Cardinality(Booting') > 1)
  BY <1>1 DEF Overlap
<1>3. Writers' \in SUBSET Nodes /\ Booting' \in SUBSET Nodes
  BY DEF Writers, Booting
<1>4. ASSUME NEW S \in SUBSET Nodes, ~ (Cardinality(S) > 1)
      PROVE  \A x, y \in S : x = y
  BY <1>4, AtMostOne
<1> QED BY <1>1, <1>2, <1>3, <1>4 DEF Alone

LEMMA SamePending ==
    ASSUME \A m \in Nodes :
              /\ loaded'[m].is_open <=> loaded[m].is_open
              /\ loaded[m].is_open => /\ loaded'[m].block = loaded[m].block
                                      /\ loaded'[m].side_effects = loaded[m].side_effects
    PROVE  \A b \in Blocks : Pending(b)' <=> Pending(b)
BY DEF Pending

LEMMA CountTypes ==
    ASSUME Types
    PROVE  /\ \A b \in Blocks : side_effects[b] \in Nat /\ cut_off[b] \in Nat
           /\ root_states # <<>> => Recorded \in Nat
BY LastProperties DEF Recorded, Types, DatabaseOK, TasksOK, RootStates

\* At most one node has its tasks stopped.
MayStop ==
    \/ UNCHANGED <<loaded, cut_off>>
    \/ \E n \in Nodes : loaded' = [loaded EXCEPT ![n] = Nothing] /\ CutOff(n)

\* The transaction that is cut off counts where the cursor would have.
LEMMA CountedAfterStop ==
    ASSUME Types, MayStop, UNCHANGED <<root_states, cursors, side_effects>>
    PROVE  /\ Counted => Counted'
           /\ \A b \in Blocks : cut_off'[b] \in Nat /\ cut_off'[b] >= cut_off[b]
           /\ \A n \in Nodes : loaded'[n] = loaded[n] \/ loaded'[n] = Nothing
<1>1. /\ Recorded' = Recorded /\ \A b \in Blocks : Passed(b)' <=> Passed(b)
      /\ \A b \in Blocks : side_effects'[b] = side_effects[b]
      /\ \A b \in Blocks : side_effects[b] \in Nat /\ cut_off[b] \in Nat
  BY CountTypes DEF Recorded, Passed
<1>2. CASE UNCHANGED <<loaded, cut_off>>
  <2>1. \A b \in Blocks : Pending(b)' <=> Pending(b)
    BY <1>2 DEF Pending
  <2>2. Counted => Counted'
    BY <1>1, <1>2, <2>1 DEF Counted
  <2> QED BY <1>1, <1>2, <2>2
<1>3. ASSUME NEW n \in Nodes, loaded' = [loaded EXCEPT ![n] = Nothing], CutOff(n)
      PROVE  /\ Counted => Counted'
             /\ \A b \in Blocks : cut_off'[b] \in Nat /\ cut_off'[b] >= cut_off[b]
             /\ \A m \in Nodes : loaded'[m] = loaded[m] \/ loaded'[m] = Nothing
  <2> DEFINE e == loaded[n].block
             ran == loaded[n].is_open /\ RunsSideEffects(e, loaded[n].side_effects)
  <2>1. /\ loaded'[n] = Nothing /\ ~ loaded'[n].is_open
        /\ \A m \in Nodes \ {n} : loaded'[m] = loaded[m]
    BY <1>3 DEF Types, TasksOK, Nothing
  <2>2. \A b \in Blocks : Pending(b) => Pending(b)' \/ (ran /\ b = e)
    BY <2>1 DEF Pending
  <2>3. \A b \in Blocks : Pending(b)' => Pending(b)
    BY <2>1 DEF Pending
  <2>4. CASE ran
    <3>1. e \in Blocks /\ root_states # <<>> /\ cut_off \in [Blocks -> Nat]
      BY <2>4 DEF Types, TasksOK, DatabaseOK, Loads
    <3>2. cut_off' = [cut_off EXCEPT ![e] = @ + 1]
      BY <1>3, <2>4 DEF CutOff
    <3> HIDE DEF e, ran
    <3>3. cut_off'[e] = cut_off[e] + 1 /\ \A b \in Blocks \ {e} : cut_off'[b] = cut_off[b]
      BY <3>1, <3>2
    <3>4. Recorded \in Nat
      BY <3>1, CountTypes
    <3>5. ASSUME Counted, NEW b \in Blocks
          PROVE  side_effects[b] <= Recorded + cut_off'[b]
                                    + IF Passed(b) \/ Pending(b)' THEN 1 ELSE 0
      <4>1. side_effects[b] <= Recorded + cut_off[b]
                               + IF Passed(b) \/ Pending(b) THEN 1 ELSE 0
        BY <3>5 DEF Counted
      <4>2. CASE b = e
        <5>1. side_effects[b] <= Recorded + cut_off[b] + 1
          BY <1>1, <3>4, <4>1
        <5> QED BY <1>1, <3>3, <3>4, <4>2, <5>1
      <4>3. CASE b # e
        <5>1. Pending(b)' <=> Pending(b)
          BY <2>2, <2>3, <4>3
        <5> QED BY <3>3, <4>1, <4>3, <5>1
      <4> QED BY <4>2, <4>3
    <3>6. Counted => Counted'
      BY <1>1, <3>5 DEF Counted
    <3> QED BY <1>1, <2>1, <3>1, <3>3, <3>6
  <2>5. CASE ~ ran
    <3>1. cut_off' = cut_off
      BY <1>3, <2>5 DEF CutOff
    <3>2. \A b \in Blocks : Pending(b)' <=> Pending(b)
      BY <2>2, <2>3, <2>5
    <3>3. Counted => Counted'
      BY <1>1, <3>1, <3>2 DEF Counted
    <3> QED BY <1>1, <2>1, <3>1, <3>3
  <2> QED BY <2>4, <2>5
<1> QED BY <1>2, <1>3 DEF MayStop

\* The index as the parts of the invariant see it stays as it is.
LEMMA QuietStep ==
    ASSUME Types, ResetInv, ~ overlapped, UNCHANGED database, Undecided' \subseteq Undecided,
           MayStop,
           \A n \in Nodes : pc'[n] = "setup" =>
              \/ pc[n] = "setup" /\ todo'[n] = todo[n] /\ root'[n] = root[n]
              \/ \E i \in 1..5 : Beginning(n, i)'
    PROVE  /\ IndexInv' /\ SideEffectsInv'
           /\ \A n \in Nodes : (pc'[n] = "setup" => SetupInv(n)') /\ LoadedInv(n)'
<1>1. UNCHANGED <<tables, root_states, cursors, events, versions, side_effects>>
  BY DEF database, index
<1>2. /\ Clean' <=> Clean
      /\ \A i \in 1..5 : Undone(i)' <=> Undone(i)
      /\ Recorded' = Recorded
      /\ \A n \in Nodes : (Should(n)' <=> Should(n)) /\ (ShouldZero(n)' <=> ShouldZero(n))
  BY <1>1 DEF Clean, Undone, FromStart, Recorded, Should, ShouldZero
<1>0. /\ Counted => Counted'
      /\ \A b \in Blocks : cut_off'[b] \in Nat /\ cut_off'[b] >= cut_off[b]
      /\ \A n \in Nodes : loaded'[n] = loaded[n] \/ loaded'[n] = Nothing
  BY <1>1, CountedAfterStop
<1>3. IndexInv'
  BY <1>1, <1>2 DEF ResetInv, IndexInv, Undecided
<1>4. SideEffectsInv'
  <2> SUFFICES ASSUME root_states # <<>>, ~ Counted
               PROVE  /\ "events" \notin tables
                      /\ \A n \in Undecided : ShouldZero(n)
                      /\ \A b \in Blocks : side_effects[b] <= Recorded + cut_off'[b] + 1
    BY <1>0, <1>1, <1>2 DEF SideEffectsInv, Undecided
  <2>1. /\ "events" \notin tables /\ \A n \in Undecided : ShouldZero(n)
        /\ \A b \in Blocks : side_effects[b] <= Recorded + cut_off[b] + 1
    BY DEF ResetInv, SideEffectsInv
  <2>2. Recorded \in Nat /\ \A b \in Blocks : side_effects[b] \in Nat /\ cut_off[b] \in Nat
    BY CountTypes
  <2> QED BY <1>0, <2>1, <2>2
<1>5. ASSUME NEW n \in Nodes, pc'[n] = "setup" PROVE SetupInv(n)'
  <2>1. CASE \E i \in 1..5 : Beginning(n, i)'
    BY <2>1 DEF SetupInv
  <2>2. CASE pc[n] = "setup" /\ todo'[n] = todo[n] /\ root'[n] = root[n]
    <3>1. SetupInv(n)
      BY <2>2 DEF ResetInv
    <3>2. Decided(n) => Decided(n)'
      BY <1>0, <1>1, <1>2, <2>2 DEF Decided
    <3>3. /\ \A i \in 1..5 : /\ Beginning(n, i)' <=> Beginning(n, i)
                            /\ Migrating(n, i)' <=> Migrating(n, i)
          /\ \A i \in 1..4, rest \in AfterReset :
                Resetting(n, i, rest)' <=> Resetting(n, i, rest)
      BY <2>2 DEF Beginning, Resetting, Migrating
    <3>4. CASE \E i \in 1..5 : Beginning(n, i)
      <4>1. \E i \in 1..5 : Beginning(n, i)'
        BY <2>2, <3>4 DEF Beginning
      <4> QED BY <4>1 DEF SetupInv
    <3>5. CASE /\ Decided(n)
               /\ \E i \in 1..4, rest \in AfterReset :
                    /\ Resetting(n, i, rest) /\ Undone(i)
                    /\ rest # Recording => ShouldZero(n)
      <4>1. PICK i \in 1..4, rest \in AfterReset :
                    /\ Resetting(n, i, rest) /\ Undone(i)
                    /\ rest # Recording => ShouldZero(n)
        BY <3>5
      <4>2. Resetting(n, i, rest)' /\ Undone(i)' /\ (rest # Recording => ShouldZero(n)')
        BY <4>1, <3>3, <1>2
      <4> QED BY <3>2, <3>5, <4>2 DEF SetupInv
    <3>6. CASE Decided(n) /\ \/ todo[n] = Zeroing /\ Undone(5) /\ ShouldZero(n)
                             \/ todo[n] = Recording /\ Undone(5)
      BY <1>2, <2>2, <3>2, <3>6 DEF SetupInv
    <3>7. CASE (\E i \in 1..5 : Migrating(n, i)) /\ Clean /\ Counted
      BY <1>0, <1>2, <3>3, <3>7 DEF SetupInv
    <3> QED BY <3>1, <3>4, <3>5, <3>6, <3>7 DEF SetupInv
  <2> QED BY <1>5, <2>1, <2>2
<1>6. ASSUME NEW n \in Nodes PROVE LoadedInv(n)'
  BY <1>0, <1>1 DEF ResetInv, LoadedInv, Nothing
<1> QED BY <1>3, <1>4, <1>5, <1>6

\* Where a setup is, by its next statement
LEMMA NextStatementInv ==
    ASSUME NEW n \in Nodes, SetupInv(n), todo[n] # <<>>
    PROVE  /\ \A i \in 1..4 : Head(todo[n]) = ResetStatements[i] =>
                /\ Decided(n) /\ Undone(i)
                /\ \E rest \in AfterReset : Resetting(n, i, rest) /\ (rest # Recording => ShouldZero(n))
           /\ Head(todo[n]) = "zero_side_effects" => Decided(n) /\ Undone(5) /\ ShouldZero(n)
           /\ Head(todo[n]) = "append_root_state" => Decided(n) /\ Undone(5)
           /\ \A i \in 1..4 : Head(todo[n]) = MigrationStatements[i] => Clean /\ Counted
<1>1. CASE \E i \in 1..5 : Beginning(n, i)
  <2>1. PICK i \in 1..5 : Beginning(n, i)
    BY <1>1
  <2>2. Head(todo[n]) = SetupStatements[i]
    BY <2>1, TodoForms
  <2>3. /\ \A j \in 1..4 : /\ SetupStatements[i] # ResetStatements[j]
                          /\ SetupStatements[i] # MigrationStatements[j]
        /\ SetupStatements[i] \notin {"zero_side_effects", "append_root_state"}
    BY StatementSequences
  <2> QED BY <2>2, <2>3
<1>2. ASSUME Decided(n), NEW i \in 1..4, NEW rest \in AfterReset,
             Resetting(n, i, rest), Undone(i), rest # Recording => ShouldZero(n)
      PROVE  /\ \A j \in 1..4 : /\ Head(todo[n]) = ResetStatements[j] => j = i
                               /\ Head(todo[n]) # MigrationStatements[j]
             /\ Head(todo[n]) \notin {"zero_side_effects", "append_root_state"}
  <2>1. Head(todo[n]) = ResetStatements[i]
    BY <1>2, TodoForms
  <2> QED BY <2>1, StatementSequences
<1>3. CASE todo[n] = Zeroing \/ todo[n] = Recording
  <2>1. \A i \in 1..4 :
              /\ ResetStatements[i] \notin {"zero_side_effects", "append_root_state"}
              /\ MigrationStatements[i] \notin {"zero_side_effects", "append_root_state"}
    BY StatementSequences
  <2>2. \/ todo[n] = Zeroing /\ Head(todo[n]) = "zero_side_effects"
        \/ todo[n] = Recording /\ Head(todo[n]) = "append_root_state"
    BY <1>3, RestSequences
  <2>3. /\ \A i \in 1..4 : /\ Head(todo[n]) # ResetStatements[i]
                          /\ Head(todo[n]) # MigrationStatements[i]
        /\ ~ (\E i \in 1..5 : Beginning(n, i)) /\ ~ (\E i \in 1..5 : Migrating(n, i))
        /\ ~ \E i \in 1..4, rest \in AfterReset : Resetting(n, i, rest)
    <3>1. \A i \in 1..5 : SetupStatements[i] \notin {"zero_side_effects", "append_root_state"}
      BY StatementSequences
    <3> QED BY <2>1, <2>2, <3>1, TodoForms
  <2>4. /\ Decided(n) /\ Undone(5) /\ (todo[n] = Zeroing => ShouldZero(n))
    BY <2>3, RestSequences DEF SetupInv
  <2> QED BY <2>2, <2>3, <2>4
<1>4. CASE (\E i \in 1..5 : Migrating(n, i)) /\ Clean /\ Counted
  <2>1. PICK i \in 1..4 : Migrating(n, i)
    BY <1>4, TodoForms
  <2>2. Head(todo[n]) = MigrationStatements[i]
    BY <2>1, TodoForms
  <2>3. /\ \A j \in 1..4 : MigrationStatements[i] # ResetStatements[j]
        /\ MigrationStatements[i] \notin {"zero_side_effects", "append_root_state"}
    BY StatementSequences
  <2> QED BY <1>4, <2>2, <2>3
<1>5. CASE \E i \in 1..4, rest \in AfterReset :
             /\ Decided(n) /\ Resetting(n, i, rest) /\ Undone(i)
             /\ rest # Recording => ShouldZero(n)
  <2>1. PICK i \in 1..4, rest \in AfterReset :
             /\ Decided(n) /\ Resetting(n, i, rest) /\ Undone(i)
             /\ rest # Recording => ShouldZero(n)
    BY <1>5
  <2>2. /\ \A j \in 1..4 : /\ Head(todo[n]) = ResetStatements[j] => j = i
                          /\ Head(todo[n]) # MigrationStatements[j]
        /\ Head(todo[n]) \notin {"zero_side_effects", "append_root_state"}
    BY <1>2, <2>1
  <2> QED BY <2>1, <2>2
<1> QED BY <1>1, <1>3, <1>4, <1>5 DEF SetupInv

\* A setup past its comparison is no longer to compare.
LEMMA PastComparing ==
    ASSUME NEW t,
           \/ \E i \in 1..4, rest \in AfterReset : t = From(ResetStatements, i) \o rest
           \/ t \in AfterReset
           \/ \E i \in 1..5 : t = From(MigrationStatements, i)
    PROVE  \A i \in 1..5 : t # From(SetupStatements, i)
<1> SUFFICES ASSUME NEW i \in 1..5, t = From(SetupStatements, i) PROVE FALSE
  OBVIOUS
<1>1. Head(t) = SetupStatements[i] /\ t # <<>>
  <2>1. SetupStatements \in Seq(Statements) /\ i \in 1..Len(SetupStatements)
    BY StatementSequences
  <2> QED BY <2>1, FromProperties
<1>2. /\ \A j \in 1..4 : /\ SetupStatements[i] # ResetStatements[j]
                        /\ SetupStatements[i] # MigrationStatements[j]
      /\ SetupStatements[i] \notin {"zero_side_effects", "append_root_state", "drop_events"}
  BY StatementSequences
<1>3. ASSUME NEW k \in 1..4, NEW rest \in AfterReset, t = From(ResetStatements, k) \o rest
      PROVE  FALSE
  <2> DEFINE left == From(ResetStatements, k)
  <2>1. ResetStatements \in Seq(Statements) /\ k \in 1..Len(ResetStatements)
        /\ rest \in Seq(Statements)
    BY StatementSequences, RestSequences
  <2>2. left \in Seq(Statements) /\ left # <<>> /\ Head(left) = ResetStatements[k]
    BY <2>1, FromProperties
  <2>3. Head(left \o rest) = Head(left)
    <3> HIDE DEF left
    <3> QED BY <2>1, <2>2, TailOfConcat
  <2> QED BY <1>1, <1>2, <1>3, <2>2, <2>3
<1>4. CASE t \in AfterReset
  BY <1>1, <1>2, <1>4, RestSequences DEF AfterReset
<1>5. ASSUME NEW k \in 1..5, t = From(MigrationStatements, k) PROVE FALSE
  <2>1. MigrationStatements \in Seq(Statements) /\ Len(MigrationStatements) = 4
        /\ <<>> \in Seq(Statements)
    BY StatementSequences
  <2>2. CASE k \in 1..4
    <3>1. k \in 1..Len(MigrationStatements)
      BY <2>1, <2>2
    <3>2. Head(t) = MigrationStatements[k]
      BY <1>5, <2>1, <3>1, FromProperties
    <3> QED BY <1>1, <1>2, <2>2, <3>2
  <2>3. CASE k = 5
    <3>1. From(MigrationStatements, Len(MigrationStatements) + 1) = <<>>
      BY <2>1, FromEnds
    <3> QED BY <1>1, <1>5, <2>1, <2>3, <3>1
  <2> QED BY <2>2, <2>3
<1> QED BY <1>3, <1>4, <1>5

\* While n sets up, no node runs its tasks, and those yet to set up join after n.
LEMMA SettingUpAlone ==
    ASSUME Types, Alone, NEW n \in Nodes, pc[n] = "setup"
    PROVE  /\ \A m \in Nodes : tasks[m] = {} /\ loaded[m].ingest = 0 /\ loaded[m].block = 0
           /\ \A m \in Nodes \ {n} : pc[m] \notin {"setup", "waiting"}
           /\ \A m \in Undecided \ {n} : /\ pc[m] \in {"unborn", "joining"} /\ m > n
                                         /\ root_states # <<>> /\ Should(n) => Should(m)
                                         /\ root_states # <<>> /\ ShouldZero(n) => ShouldZero(m)
<1> USE Constants
<1>1. n \in Writers /\ n \in Booting
  BY DEF Writers, Booting
<1>2. \A m \in Nodes : tasks[m] = {}
  BY <1>1 DEF Alone, Writers, Types, TasksOK
<1>3. \A m \in Nodes : loaded[m].ingest = 0 /\ loaded[m].block = 0
  BY <1>2 DEF Types, TasksOK
<1>4. \A m \in Nodes \ {n} : pc[m] \notin {"setup", "waiting"}
  BY <1>1 DEF Alone, Booting
<1>5. ASSUME NEW m \in Undecided \ {n}
      PROVE  /\ m \in Nodes /\ pc[m] \in {"unborn", "joining"} /\ m > n
             /\ root_states # <<>> /\ Should(n) => Should(m)
             /\ root_states # <<>> /\ ShouldZero(n) => ShouldZero(m)
  <2>1. m \in Nodes /\ pc[m] \in {"unborn", "joining"}
    BY <1>4 DEF Undecided
  <2>2. m > n
    BY <2>1 DEF Types, NodesOK, Unborn
  <2>3. root_states # <<>> => /\ Last(root_states).reset_count \in Nat
                              /\ Last(root_states).reset_including_side_effects_count \in Nat
    BY LastProperties DEF Types, DatabaseOK, RootStates
  <2>4. /\ ResetCount[n] \in Nat /\ ResetCount[m] \in Nat /\ ResetCount[n] <= ResetCount[m]
        /\ ResetIncludingSideEffectsCount[n] \in Nat
        /\ ResetIncludingSideEffectsCount[m] \in Nat
        /\ ResetIncludingSideEffectsCount[n] <= ResetIncludingSideEffectsCount[m]
    BY <2>1, <2>2
  <2> QED BY <2>1, <2>2, <2>3, <2>4 DEF Should, ShouldZero, ShouldResetNormally,
             ShouldResetIncludingSideEffects
<1> QED BY <1>2, <1>3, <1>4, <1>5

\* What a statement of n leaves to show: the other nodes' part of the invariant holds.
LEMMA StatementInv ==
    ASSUME Types, ResetInv, ~ overlapped, NEW n \in Nodes, pc[n] = "setup",
           UNCHANGED <<pc, loaded, cut_off>>, \A m \in Nodes \ {n} : todo'[m] = todo[m],
           SetupInv(n)'
    PROVE  /\ \A m \in Nodes : (pc'[m] = "setup" => SetupInv(m)') /\ LoadedInv(m)'
           /\ Undecided' \subseteq Undecided \cup {n}
           /\ Undecided \subseteq Undecided' \cup {n}
<1>1. Alone
  BY DEF ResetInv
<1>2. \A m \in Nodes : loaded'[m].ingest = 0 /\ loaded'[m].block = 0
  BY <1>1, SettingUpAlone
<1>3. \A m \in Nodes : LoadedInv(m)'
  BY <1>2 DEF LoadedInv
<1>4. \A m \in Nodes : pc'[m] = "setup" => m = n
  BY <1>1, SettingUpAlone
<1>5. \A m \in Nodes \ {n} : m \in Undecided' <=> m \in Undecided
  BY DEF Undecided, Beginning
<1> QED BY <1>3, <1>4, <1>5 DEF Undecided

\* The rows a reset leaves match the cursors at the start, and no others.
LEMMA FreshIsClean ==
    ASSUME DatabaseOK, Undone(5)
    PROVE  Clean
BY Constants DEF Undone, FromStart, Clean, NoRows, Blocks, DatabaseOK

\* The invariant's part about the index, from the node that is setting it up
LEMMA DecidedInv ==
    ASSUME Types, ResetInv, ~ overlapped, NEW n \in Nodes, pc[n] = "setup", root_states # <<>>,
           UNCHANGED <<pc, root_states, side_effects, cut_off>>,
           "events" \notin tables',
           \A m \in Nodes \ {n} : todo'[m] = todo[m],
           \A i \in 1..5 : ~ Beginning(n, i)'
    PROVE  /\ Should(n) => IndexInv'
           /\ ~ Counted => SideEffectsInv'
           /\ ShouldZero(n) => SideEffectsInv'
<1> USE Constants
<1>1. Alone
  BY DEF ResetInv
<1>2. ASSUME NEW m \in Undecided' PROVE m \in Undecided \ {n}
  BY DEF Undecided, Beginning
<1>3. Should(n) => IndexInv'
  <2> SUFFICES ASSUME Should(n), NEW m \in Undecided' PROVE Should(m)'
    BY DEF IndexInv
  <2>1. Should(m)
    BY <1>1, <1>2, SettingUpAlone
  <2> QED BY <2>1 DEF Should
<1>4. /\ Recorded \in Nat /\ Recorded' = Recorded
      /\ \A b \in Blocks : side_effects[b] \in Nat /\ cut_off[b] \in Nat
  BY CountTypes DEF Recorded
<1>5. \A b \in Blocks : side_effects[b] <= Recorded + cut_off[b] + 1
  <2>1. CASE Counted
    <3> SUFFICES ASSUME NEW b \in Blocks
                 PROVE  side_effects[b] <= Recorded + cut_off[b] + 1
      OBVIOUS
    <3>1. side_effects[b] <= Recorded + cut_off[b]
                             + IF Passed(b) \/ Pending(b) THEN 1 ELSE 0
      BY <2>1 DEF Counted
    <3>2. Recorded \in Nat /\ side_effects[b] \in Nat /\ cut_off[b] \in Nat
      BY <1>4
    <3>3. CASE Passed(b) \/ Pending(b)
      BY <3>1, <3>2, <3>3
    <3>4. CASE ~ (Passed(b) \/ Pending(b))
      BY <3>1, <3>2, <3>4
    <3> QED BY <3>3, <3>4
  <2> QED BY <2>1 DEF ResetInv, SideEffectsInv
<1>6. ASSUME ~ Counted \/ ShouldZero(n) PROVE SideEffectsInv'
  <2>1. \A m \in Undecided' : ShouldZero(m)
    BY <1>1, <1>2, <1>6, SettingUpAlone DEF ResetInv, SideEffectsInv
  <2>2. \A m \in Undecided' : ShouldZero(m)'
    BY <2>1 DEF ShouldZero
  <2>3. \A b \in Blocks : side_effects'[b] <= Recorded' + cut_off'[b] + 1
    BY <1>4, <1>5
  <2> QED BY <2>2, <2>3 DEF SideEffectsInv
<1> QED BY <1>3, <1>6

\* What a setup left to do becomes when it executes a statement
LEMMA ProceedForms ==
    ASSUME NEW n \in Nodes, todo \in [Nodes -> Seq(Statements)], Proceed(n)
    PROVE  /\ \A m \in Nodes \ {n} : todo'[m] = todo[m]
           /\ \A i \in 1..4 : Beginning(n, i) => Beginning(n, i + 1)'
           /\ \A i \in 1..3 : \A rest \in AfterReset :
                 Resetting(n, i, rest) => Resetting(n, i + 1, rest)'
           /\ \A rest \in AfterReset : Resetting(n, 4, rest) => todo'[n] = rest
           /\ todo[n] = Zeroing => todo'[n] = Recording
           /\ todo[n] = Recording => Migrating(n, 1)'
           /\ \A i \in 1..4 : Migrating(n, i) => Migrating(n, i + 1)'
<1>1. todo'[n] = Tail(todo[n]) /\ \A m \in Nodes \ {n} : todo'[m] = todo[m]
  BY DEF Proceed
<1>2. ASSUME NEW i \in 1..4, Beginning(n, i) PROVE Beginning(n, i + 1)'
  BY <1>1, <1>2, TodoForms DEF Beginning
<1>3. ASSUME NEW i \in 1..4, NEW rest \in AfterReset, Resetting(n, i, rest)
      PROVE  todo'[n] = From(ResetStatements, i + 1) \o rest
  BY <1>1, <1>3, TodoForms
<1>4. ASSUME NEW i \in 1..3, NEW rest \in AfterReset, Resetting(n, i, rest)
      PROVE  Resetting(n, i + 1, rest)'
  <2>1. i \in 1..4
    OBVIOUS
  <2> QED BY <1>3, <1>4, <2>1 DEF Resetting
<1>5. ASSUME NEW rest \in AfterReset, Resetting(n, 4, rest) PROVE todo'[n] = rest
  <2>1. todo'[n] = From(ResetStatements, 5) \o rest
    BY <1>3, <1>5
  <2> QED BY <2>1, TodoForms
<1>6. todo[n] = Zeroing => todo'[n] = Recording
  BY <1>1, RestSequences
<1>7. todo[n] = Recording => Migrating(n, 1)'
  <2>1. From(MigrationStatements, 1) = MigrationStatements
    BY StatementSequences, FromEnds, RestSequences
  <2> QED BY <1>1, <2>1, RestSequences DEF Migrating
<1>8. ASSUME NEW i \in 1..4, Migrating(n, i) PROVE Migrating(n, i + 1)'
  BY <1>1, <1>8, TodoForms DEF Migrating
<1> QED BY <1>1, <1>2, <1>4, <1>5, <1>6, <1>7, <1>8

\* The end of a reset: n is to record it, to zero the cursors of the side effects, or
\* to reset again.
LEMMA ResetEnds ==
    ASSUME NEW n \in Nodes, NEW rest \in AfterReset, todo'[n] = rest,
           rest # Recording => ShouldZero(n)', Decided(n)', Undone(5)'
    PROVE  /\ SetupInv(n)' /\ \A i \in 1..5 : ~ Beginning(n, i)'
<1>1. From(ResetStatements, 1) = ResetStatements
  BY StatementSequences, FromEnds, RestSequences
<1>2. \A i \in 1..5 : ~ Beginning(n, i)'
  BY PastComparing DEF Beginning
<1>3. CASE rest = Recording \/ rest = Zeroing
  <2>1. SetupInv(n)'
    BY <1>3, RestSequences DEF SetupInv
  <2> QED BY <2>1, <1>2
<1>4. CASE rest = ResetStatements \o Zeroing
  <2>1. todo'[n] = From(ResetStatements, 1) \o Zeroing /\ Zeroing \in AfterReset /\ 1 \in 1..4
    BY <1>1, <1>4 DEF AfterReset
  <2>2. Resetting(n, 1, Zeroing)' /\ Undone(1)'
    BY <2>1 DEF Resetting, Undone
  <2>3. ShouldZero(n)'
    BY <1>4, RestSequences
  <2>4. SetupInv(n)'
    BY <2>1, <2>2, <2>3 DEF SetupInv
  <2> QED BY <2>4, <1>2
<1> QED BY <1>3, <1>4 DEF AfterReset

\* A step of n that is no statement and indexes nothing
LEMMA QuietNode ==
    ASSUME Types, ResetInv, ~ overlapped, NEW n \in Nodes, UNCHANGED database,
           \A m \in Nodes \ {n} : /\ pc'[m] = pc[m] /\ todo'[m] = todo[m]
                                  /\ root'[m] = root[m],
           MayStop,
           n \in Undecided \/ pc'[n] \notin {"unborn", "joining", "waiting", "setup"},
           pc'[n] = "setup" => \E i \in 1..5 : Beginning(n, i)'
    PROVE  /\ IndexInv' /\ SideEffectsInv'
           /\ \A m \in Nodes : (pc'[m] = "setup" => SetupInv(m)') /\ LoadedInv(m)'
<1>1. Undecided' \subseteq Undecided
  BY DEF Undecided, Beginning
<1> QED BY <1>1, QuietStep

LEMMA QuietActions ==
    ASSUME Types, ResetInv, ~ overlapped, NEW n \in Nodes,
           \/ SetupNodes(n) \/ CreateNode(n) \/ StartSetup(n) \/ StartLoop(n)
           \/ KeepNodeActive(n) \/ Elect(n) \/ RunTasks(n) \/ Crash(n) \/ Heartbeat(n)
    PROVE  /\ IndexInv' /\ SideEffectsInv'
           /\ \A m \in Nodes : (pc'[m] = "setup" => SetupInv(m)') /\ LoadedInv(m)'
<1> USE DEF setup, running
<1>1. CASE SetupNodes(n)
  BY <1>1, QuietNode DEF SetupNodes, Undecided, MayStop, Types, SetupOK
<1>2. CASE CreateNode(n)
  BY <1>2, QuietNode DEF CreateNode, Undecided, MayStop, Types, SetupOK
<1>3. CASE StartSetup(n)
  <2>1. Beginning(n, 1)'
    BY <1>3, StatementSequences, FromEnds, RestSequences DEF StartSetup, Beginning, Types, SetupOK
  <2>2. n \in Undecided
    BY <1>3 DEF StartSetup, Undecided
  <2>3. \A m \in Nodes \ {n} : /\ pc'[m] = pc[m] /\ todo'[m] = todo[m]
                               /\ root'[m] = root[m]
    BY <1>3 DEF StartSetup
  <2>4. UNCHANGED database /\ MayStop
    BY <1>3 DEF StartSetup, MayStop
  <2> QED BY <2>1, <2>2, <2>3, <2>4, QuietNode
<1>4. CASE StartLoop(n)
  BY <1>4, QuietNode DEF StartLoop, MayStop, Types, SetupOK
<1>5. CASE KeepNodeActive(n)
  BY <1>5, QuietNode DEF KeepNodeActive, MayStop, Types, SetupOK
<1>6. CASE Elect(n)
  BY <1>6, QuietNode DEF Elect, MayStop, Types, SetupOK
<1>7. CASE RunTasks(n)
  <2>1. MayStop
    BY <1>7, OrchestrateTypes DEF RunTasks, MayStop
  <2> QED BY <1>7, <2>1, QuietNode DEF RunTasks, Types, SetupOK
<1>8. CASE Crash(n)
  <2>1. MayStop
    BY <1>8 DEF Crash, SetState, MayStop
  <2> QED BY <1>8, <2>1, QuietNode DEF Crash, Types, SetupOK
<1>9. CASE Heartbeat(n)
  <2>1. UNCHANGED <<database, pc, todo, root>> /\ MayStop /\ pc[n] = "tick"
    BY <1>9 DEF Heartbeat, MayStop
  <2> QED BY <2>1, QuietNode
<1> QED BY <1>1, <1>2, <1>3, <1>4, <1>5, <1>6, <1>7, <1>8, <1>9

LEMMA QuietSecond ==
    ASSUME Types, ResetInv, ~ overlapped, PassSecond
    PROVE  /\ IndexInv' /\ SideEffectsInv'
           /\ \A m \in Nodes : (pc'[m] = "setup" => SetupInv(m)') /\ LoadedInv(m)'
<1>1. UNCHANGED <<database, pc, todo, root>> /\ MayStop
  BY DEF PassSecond, MayStop, setup, running
<1>2. Undecided' \subseteq Undecided
  BY <1>1 DEF Undecided, Beginning
<1> QED BY <1>1, <1>2, QuietStep

\* What each statement says of the setup that executes it
LEMMA DoesInv ==
    ASSUME Types, ResetInv, ~ overlapped, NEW n \in Nodes, NEW statement, Does(n, statement)
    PROVE  /\ pc[n] = "setup" /\ TodoOK(n) /\ SetupInv(n)
           /\ todo[n] # <<>> /\ Head(todo[n]) = statement
           /\ todo \in [Nodes -> Seq(Statements)]
           /\ DatabaseOK /\ IndexInv /\ SideEffectsInv
BY DoesForms DEF ResetInv, Types

\* A statement that leaves the rows, the cursors and the last root state as they are
LEMMA SameIndex ==
    ASSUME IndexInv, SideEffectsInv, Undecided' \subseteq Undecided,
           UNCHANGED <<cursors, events, versions, side_effects, cut_off>>,
           \A b \in Blocks : Pending(b)' <=> Pending(b),
           "events" \in tables' => "events" \in tables,
           \/ root_states' = root_states
           \/ root_states # <<>> /\ root_states' # <<>> /\ Last(root_states') = Last(root_states)
    PROVE  IndexInv' /\ SideEffectsInv'
<1>1. /\ Clean' <=> Clean
      /\ root_states' # <<>> <=> root_states # <<>>
      /\ root_states' # <<>> => (Counted' <=> Counted) /\ Recorded' = Recorded
      /\ \A n \in Undecided : root_states' # <<>> =>
            (Should(n)' <=> Should(n)) /\ (ShouldZero(n)' <=> ShouldZero(n))
  BY DEF Clean, Counted, Passed, Recorded, Should, ShouldZero
<1>2. IndexInv'
  BY <1>1 DEF IndexInv
<1>3. SideEffectsInv'
  BY <1>1 DEF SideEffectsInv
<1> QED BY <1>2, <1>3

\* A setup whose index is clean and counted has nothing else to show.
LEMMA CleanAndCounted ==
    ASSUME Types, ResetInv, ~ overlapped, NEW n \in Nodes, pc[n] = "setup",
           UNCHANGED <<pc, loaded, cut_off>>, \A m \in Nodes \ {n} : todo'[m] = todo[m],
           Clean', Counted', NEW i \in 1..5, Migrating(n, i)'
    PROVE  /\ IndexInv' /\ SideEffectsInv'
           /\ \A m \in Nodes : (pc'[m] = "setup" => SetupInv(m)') /\ LoadedInv(m)'
<1>1. SetupInv(n)'
  BY DEF SetupInv
<1> QED BY <1>1, StatementInv DEF IndexInv, SideEffectsInv

LEMMA CreateTableInv ==
    ASSUME Types, ResetInv, ~ overlapped, NEW n \in Nodes, CreateTable(n),
           UNCHANGED <<pc, loaded, cut_off>>
    PROVE  /\ IndexInv' /\ SideEffectsInv'
           /\ \A m \in Nodes : (pc'[m] = "setup" => SetupInv(m)') /\ LoadedInv(m)'
<1>1. PICK statement \in DOMAIN Creates :
        Does(n, statement) /\ Proceed(n) /\ tables' = tables \cup {Creates[statement]}
  BY DEF CreateTable
<1>2. UNCHANGED <<root_states, root, cursors, events, versions, side_effects>>
  BY DEF CreateTable, index
<1>3. \/ /\ \E i \in 1..2 : statement = SetupStatements[i]
         /\ "events" \in tables' => "events" \in tables
      \/ \E i \in 1..3 : statement = MigrationStatements[i]
  BY <1>1, StatementSequences DEF Creates
<1>4. ASSUME NEW i \in 1..2, statement = SetupStatements[i],
             "events" \in tables' => "events" \in tables
      PROVE  /\ IndexInv' /\ SideEffectsInv'
             /\ \A m \in Nodes : (pc'[m] = "setup" => SetupInv(m)') /\ LoadedInv(m)'
  <2>1. Beginning(n, i) /\ Beginning(n, i + 1)' /\ i + 1 \in 1..5
    BY <1>1, <1>4, DoesInv, NextStatement, ProceedForms
  <2>2. SetupInv(n)'
    BY <2>1 DEF SetupInv
  <2>3. n \in Undecided
    BY <1>1, <2>1, DoesInv DEF Undecided
  <2>4. \A m \in Nodes \ {n} : todo'[m] = todo[m]
    BY <1>1, DoesInv, ProceedForms
  <2>5. /\ \A m \in Nodes : (pc'[m] = "setup" => SetupInv(m)') /\ LoadedInv(m)'
        /\ Undecided' \subseteq Undecided
    BY <1>1, <2>2, <2>3, <2>4, DoesInv, StatementInv
  <2>6. \A b \in Blocks : Pending(b)' <=> Pending(b)
    BY DEF Pending
  <2> QED BY <1>1, <1>2, <1>4, <2>5, <2>6, DoesInv, SameIndex
<1>5. ASSUME NEW i \in 1..3, statement = MigrationStatements[i]
      PROVE  /\ IndexInv' /\ SideEffectsInv'
             /\ \A m \in Nodes : (pc'[m] = "setup" => SetupInv(m)') /\ LoadedInv(m)'
  <2>1. Migrating(n, i) /\ Migrating(n, i + 1)' /\ i + 1 \in 1..5
    BY <1>1, <1>5, DoesInv, NextStatement, ProceedForms
  <2>2. Clean /\ Counted
    BY <1>1, <1>5, DoesInv, NextStatementInv
  <2>3. Clean' /\ Counted'
    BY <1>2, <2>2 DEF Clean, Counted, Passed, Pending, Recorded
  <2>4. \A m \in Nodes \ {n} : todo'[m] = todo[m]
    BY <1>1, DoesInv, ProceedForms
  <2> QED BY <1>1, <2>1, <2>3, <2>4, DoesInv, CleanAndCounted
<1> QED BY <1>3, <1>4, <1>5

LEMMA SetupRootStateInv ==
    ASSUME Types, ResetInv, ~ overlapped, NEW n \in Nodes, SetupRootState(n),
           UNCHANGED <<pc, loaded, cut_off>>
    PROVE  /\ IndexInv' /\ SideEffectsInv'
           /\ \A m \in Nodes : (pc'[m] = "setup" => SetupInv(m)') /\ LoadedInv(m)'
<1>1. PICK statement \in {"default_root_state", "prune_root_states"} : Does(n, statement)
  BY DEF SetupRootState
<1>2. UNCHANGED <<tables, root, cursors, events, versions, side_effects>> /\ Proceed(n)
  BY DEF SetupRootState, index
<1>3. PICK i \in 3..4 : statement = SetupStatements[i]
  BY <1>1, StatementSequences
<1>4. Beginning(n, i) /\ Beginning(n, i + 1)' /\ i + 1 \in 1..5
  BY <1>1, <1>2, <1>3, DoesInv, NextStatement, ProceedForms
<1>5. SetupInv(n)'
  BY <1>4 DEF SetupInv
<1>6. n \in Undecided
  BY <1>1, <1>4, DoesInv DEF Undecided
<1>7. \A m \in Nodes \ {n} : todo'[m] = todo[m]
  BY <1>1, <1>2, DoesInv, ProceedForms
<1>8. /\ \A m \in Nodes : (pc'[m] = "setup" => SetupInv(m)') /\ LoadedInv(m)'
      /\ Undecided' \subseteq Undecided
  BY <1>1, <1>5, <1>6, <1>7, DoesInv, StatementInv
<1>9. CASE root_states # <<>>
  <2>1. \A b \in Blocks : Pending(b)' <=> Pending(b)
    BY DEF Pending
  <2> QED BY <1>1, <1>2, <1>8, <1>9, <2>1, DoesInv, SetupRootStateTypes, SameIndex
<1>10. CASE root_states = <<>>
  <2>1. /\ cursors = {} /\ events = NoRows /\ versions = NoRows /\ side_effects = NoRows
        /\ DatabaseOK' /\ root_states' # <<>>
    BY <1>10, SetupRootStateTypes DEF Types, DatabaseOK
  <2>2. Recorded' \in Nat
    BY <2>1, LastProperties DEF Recorded, DatabaseOK, RootStates
  <2>3. Clean'
    BY <1>2, <2>1 DEF Clean
  <2>4. \A b \in Blocks : side_effects'[b] = 0 /\ cut_off'[b] \in Nat
    BY <1>2, <2>1, CountTypes DEF NoRows
  <2>5. Counted'
    BY <2>2, <2>4 DEF Counted
  <2> QED BY <1>8, <2>3, <2>5 DEF IndexInv, SideEffectsInv
<1> QED BY <1>9, <1>10

\* maybe_reset decides by the last root state, which no setup changes until its reset
\* is over.
LEMMA MaybeResetInv ==
    ASSUME Types, ResetInv, ~ overlapped, NEW n \in Nodes, MaybeReset(n),
           UNCHANGED <<pc, loaded, cut_off>>
    PROVE  /\ IndexInv' /\ SideEffectsInv'
           /\ \A m \in Nodes : (pc'[m] = "setup" => SetupInv(m)') /\ LoadedInv(m)'
<1> DEFINE last == Last(root_states)
<1>1. Does(n, "maybe_reset") /\ UNCHANGED database
  BY DEF MaybeReset
<1>2. UNCHANGED <<tables, root_states, cursors, events, versions, side_effects>>
  BY <1>1 DEF database, index
<1>3. /\ todo'[n] = ResetPlan(n, last) \o MigrationStatements
      /\ root'[n] = UpdatedRootState(n, last)
      /\ \A m \in Nodes \ {n} : todo'[m] = todo[m]
  BY DEF MaybeReset, Types, SetupOK
<1>4. Beginning(n, 5) /\ root_states # <<>>
  BY MaybeResetTypes
<1>5. n \in Undecided
  BY <1>1, <1>4, DoesInv DEF Undecided
<1>6. Should(n) \/ Clean
  BY <1>1, <1>5, DoesInv DEF IndexInv
<1>7. ShouldZero(n) \/ Counted
  BY <1>1, <1>4, <1>5, DoesInv DEF SideEffectsInv
<1>8. /\ Clean' <=> Clean
      /\ Counted' <=> Counted
      /\ (Should(n)' <=> Should(n)) /\ (ShouldZero(n)' <=> ShouldZero(n))
      /\ \A b \in Blocks : Pending(b)' <=> Pending(b)
  BY <1>2 DEF Clean, Counted, Passed, Pending, Recorded, Should, ShouldZero
<1>9. SetupInv(n)'
  <2>1. CASE Should(n)
    <3>1. Decided(n)'
      BY <1>2, <1>3, <1>7, <1>8, <2>1 DEF Decided
    <3>2. PICK rest \in AfterReset :
            /\ todo'[n] = From(ResetStatements, 1) \o rest
            /\ rest # Recording => ShouldZero(n)
      BY <1>3, <2>1, ResetPlanForms DEF AfterReset, Should, ShouldZero
    <3>3. Resetting(n, 1, rest)' /\ Undone(1)' /\ 1 \in 1..4
      BY <3>2 DEF Resetting, Undone
    <3> QED BY <1>8, <3>1, <3>2, <3>3 DEF SetupInv
  <2>2. CASE ~ Should(n)
    <3>1. Migrating(n, 1)'
      BY <1>3, <2>2, ResetPlanForms DEF Should, Migrating
    <3>2. Clean' /\ Counted'
      BY <1>6, <1>7, <1>8, <2>2 DEF Should, ShouldZero
    <3> QED BY <3>1, <3>2 DEF SetupInv
  <2> QED BY <2>1, <2>2
<1>10. /\ \A m \in Nodes : (pc'[m] = "setup" => SetupInv(m)') /\ LoadedInv(m)'
       /\ Undecided' \subseteq Undecided
  BY <1>1, <1>3, <1>5, <1>9, DoesInv, StatementInv
<1> QED BY <1>1, <1>2, <1>8, <1>10, DoesInv, SameIndex

\* A statement of a reset: what the ones before it have undone stays undone, and this
\* one adds its own.
LEMMA ResetStatementInv ==
    ASSUME Types, ResetInv, ~ overlapped, NEW n \in Nodes, NEW i \in 1..4,
           Does(n, ResetStatements[i]), Proceed(n),
           UNCHANGED <<pc, loaded, cut_off, root, root_states, side_effects>>,
           "events" \notin tables', Undone(i) => Undone(i + 1)', Counted => Counted'
    PROVE  /\ IndexInv' /\ SideEffectsInv'
           /\ \A m \in Nodes : (pc'[m] = "setup" => SetupInv(m)') /\ LoadedInv(m)'
<1>1. /\ pc[n] = "setup" /\ todo \in [Nodes -> Seq(Statements)]
      /\ \A m \in Nodes \ {n} : todo'[m] = todo[m]
  BY DoesInv, ProceedForms
<1>2. root_states # <<>> /\ Decided(n) /\ Undone(i)
  BY DoesInv, NextStatement, NextStatementInv
<1>3. PICK rest \in AfterReset : Resetting(n, i, rest) /\ (rest # Recording => ShouldZero(n))
  BY DoesInv, NextStatementInv
<1>4. /\ Decided(n)' /\ Undone(i + 1)'
      /\ (Should(n)' <=> Should(n)) /\ (ShouldZero(n)' <=> ShouldZero(n))
  BY <1>2 DEF Decided, Should, ShouldZero
<1>5. SetupInv(n)' /\ \A j \in 1..5 : ~ Beginning(n, j)'
  <2>1. CASE i \in 1..3
    <3>1. Resetting(n, i + 1, rest)' /\ i + 1 \in 1..4
      BY <1>1, <1>3, <2>1, ProceedForms
    <3>2. SetupInv(n)'
      BY <1>3, <1>4, <3>1 DEF SetupInv
    <3>3. \A j \in 1..5 : ~ Beginning(n, j)'
      BY <3>1, PastComparing DEF Beginning, Resetting
    <3> QED BY <3>2, <3>3
  <2>2. CASE i = 4
    <3>1. todo'[n] = rest
      BY <1>1, <1>3, <2>2, ProceedForms
    <3>2. Undone(5)'
      BY <1>4, <2>2
    <3> QED BY <1>3, <1>4, <3>1, <3>2, ResetEnds
  <2> QED BY <2>1, <2>2
<1>6. \A m \in Nodes : (pc'[m] = "setup" => SetupInv(m)') /\ LoadedInv(m)'
  BY <1>1, <1>5, StatementInv
<1>7. IndexInv' /\ (~ Counted => SideEffectsInv')
  BY <1>1, <1>2, <1>5, DecidedInv DEF Decided
<1>8. SideEffectsInv'
  BY <1>7 DEF SideEffectsInv
<1> QED BY <1>6, <1>7, <1>8

LEMMA DropTableInv ==
    ASSUME Types, ResetInv, ~ overlapped, NEW n \in Nodes, DropTable(n),
           UNCHANGED <<pc, loaded, cut_off>>
    PROVE  /\ IndexInv' /\ SideEffectsInv'
           /\ \A m \in Nodes : (pc'[m] = "setup" => SetupInv(m)') /\ LoadedInv(m)'
<1>1. PICK statement \in DOMAIN Drops :
        /\ Does(n, statement) /\ Proceed(n) /\ tables' = tables \ {Drops[statement]}
        /\ events' = IF statement = "drop_events" THEN NoRows ELSE events
        /\ versions' = IF statement = "drop_states" THEN NoRows ELSE versions
  BY DEF DropTable
<1>2. UNCHANGED <<root_states, root, cursors, side_effects>>
  BY DEF DropTable
<1>3. PICK i \in {1, 2, 4} : statement = ResetStatements[i]
  BY <1>1, StatementSequences DEF Drops
<1>4. Undone(i)
  BY <1>1, <1>3, DoesInv, NextStatementInv
<1>5. "events" \notin tables' /\ Undone(i + 1)'
  <2>1. /\ i = 1 => statement = "drop_events" /\ Drops[statement] = "events"
        /\ i = 2 => statement = "drop_reorged_blocks" /\ Drops[statement] = "reorged_blocks"
        /\ i = 4 => statement = "drop_states" /\ Drops[statement] = "states"
    BY <1>3, StatementSequences DEF Drops
  <2>2. CASE i = 1
    BY <1>1, <2>1, <2>2 DEF Undone
  <2>3. CASE i = 2
    BY <1>1, <1>4, <2>1, <2>3 DEF Undone
  <2>4. CASE i = 4
    BY <1>1, <1>2, <1>4, <2>1, <2>4 DEF Undone, FromStart
  <2> QED BY <2>2, <2>3, <2>4
<1>6. Counted => Counted'
  BY <1>2 DEF Counted, Passed, Pending, Recorded
<1> QED BY <1>1, <1>2, <1>3, <1>5, <1>6, ResetStatementInv

\* The root state is appended over an index that is as it was at the start.
LEMMA AppendRootStateInv ==
    ASSUME Types, ResetInv, ~ overlapped, NEW n \in Nodes, AppendRootState(n),
           UNCHANGED <<pc, loaded, cut_off>>
    PROVE  /\ IndexInv' /\ SideEffectsInv'
           /\ \A m \in Nodes : (pc'[m] = "setup" => SetupInv(m)') /\ LoadedInv(m)'
<1>1. Does(n, "append_root_state") /\ Proceed(n)
  BY DEF AppendRootState
<1>2. UNCHANGED <<tables, root, cursors, events, versions, side_effects>>
  BY DEF AppendRootState, index
<1>3. todo[n] = Recording /\ root_states # <<>> /\ Last(root_states') = root[n]
  BY AppendRootStateTypes
<1>4. Decided(n) /\ Undone(5)
  BY <1>1, DoesInv, NextStatementInv
<1>5. Clean'
  <2>1. Clean
    BY <1>1, <1>4, DoesInv, FreshIsClean
  <2> QED BY <1>2, <2>1 DEF Clean
<1>6. Counted'
  <2> DEFINE last == Last(root_states)
             done(b) == IF Passed(b) \/ Pending(b) THEN 1 ELSE 0
  <2>1. last \in RootStates
    BY <1>3, LastProperties DEF Types, DatabaseOK
  <2>2. Recorded \in Nat /\ Recorded = last.reset_including_side_effects_count
    BY <2>1 DEF Recorded, RootStates
  <2>3. Recorded' = UpdatedRootState(n, last).reset_including_side_effects_count
    BY <1>3, <1>4 DEF Recorded, Decided
  <2>4. \A b \in Blocks : /\ side_effects'[b] = side_effects[b] /\ side_effects[b] \in Nat
                          /\ cut_off'[b] = cut_off[b] /\ cut_off[b] \in Nat
    BY <1>2, CountTypes
  <2>5. \A b \in Blocks : done(b) \in {0, 1} /\ done(b)' = done(b)
    BY <1>2 DEF Passed, Pending
  <2>6. \A b \in Blocks : side_effects[b] <= Recorded + cut_off[b] + 1
    BY <1>1, <1>3, <2>2, <2>4, <2>5, DoesInv DEF SideEffectsInv, Counted
  <2> HIDE DEF last, done
  <2>7. CASE ShouldZero(n)
    <3>1. Recorded' = ResetIncludingSideEffectsCount[n] /\ ResetIncludingSideEffectsCount[n] \in Nat
      BY <2>3, <2>7, Constants DEF ShouldZero, UpdatedRootState, last
    <3>2. Recorded' >= Recorded + 1
      BY <2>2, <2>7, <3>1 DEF ShouldZero, ShouldResetIncludingSideEffects, last
    <3>3. \A b \in Blocks : side_effects'[b] <= Recorded' + cut_off'[b] + done(b)'
      BY <2>2, <2>4, <2>5, <2>6, <3>1, <3>2
    <3> QED BY <3>3 DEF Counted, done
  <2>8. CASE ~ ShouldZero(n)
    <3>1. Counted /\ Recorded' = Recorded
      BY <1>4, <2>2, <2>3, <2>8 DEF Decided, ShouldZero, UpdatedRootState, last
    <3> QED BY <1>2, <3>1 DEF Counted, Passed, Pending
  <2> QED BY <2>7, <2>8
<1>7. Migrating(n, 1)' /\ \A m \in Nodes \ {n} : todo'[m] = todo[m]
  BY <1>1, <1>3, DoesInv, ProceedForms
<1> QED BY <1>1, <1>5, <1>6, <1>7, DoesInv, CleanAndCounted

LEMMA UpdateCursorsInv ==
    ASSUME Types, ResetInv, ~ overlapped, NEW n \in Nodes, UpdateCursors(n),
           UNCHANGED <<pc, loaded, cut_off>>
    PROVE  /\ IndexInv' /\ SideEffectsInv'
           /\ \A m \in Nodes : (pc'[m] = "setup" => SetupInv(m)') /\ LoadedInv(m)'
<1>1. /\ Proceed(n)
      /\ UNCHANGED <<tables, root_states, root, events, versions, side_effects>>
  BY DEF UpdateCursors
<1>2. /\ \A c \in Cursors : c.ingest \in Positions /\ c.handle \in Positions
      /\ cursors \subseteq Cursors
  BY DEF Cursors, Types, DatabaseOK
<1>3. CASE Does(n, "restart_cursors") /\ cursors' = RestartedCursors(cursors)
  <2>1. Does(n, ResetStatements[3])
    BY <1>3, StatementSequences
  <2>2. Undone(3)
    BY <1>3, <2>1, DoesInv, NextStatementInv
  <2>3. \A c \in cursors' :
          /\ c.ingest = StartBlockNumber /\ c.handle = StartBlockNumber
          /\ \E d \in cursors : c.side_effects = d.side_effects
    BY <1>2, <1>3 DEF RestartedCursors, Cursors
  <2>4. \A d \in cursors : \E c \in cursors' : c.side_effects = d.side_effects
    <3> SUFFICES ASSUME NEW d \in cursors
                 PROVE  \E c \in cursors' : c.side_effects = d.side_effects
      OBVIOUS
    <3> DEFINE c == [d EXCEPT !.ingest = StartBlockNumber, !.handle = StartBlockNumber]
    <3>1. c \in cursors' /\ c.side_effects = d.side_effects
      BY <1>2, <1>3 DEF RestartedCursors, Cursors
    <3> QED BY <3>1
  <2>5. Undone(4)' /\ "events" \notin tables'
    BY <1>1, <2>2, <2>3 DEF Undone, FromStart
  <2>6. Counted => Counted'
    <3>1. \A b \in Blocks :
            (\E c \in cursors' : b < c.side_effects) <=> \E c \in cursors : b < c.side_effects
      BY <2>3, <2>4
    <3> QED BY <1>1, <3>1 DEF Counted, Passed, Pending, Recorded
  <2> QED BY <1>1, <2>1, <2>5, <2>6, ResetStatementInv
<1>4. CASE Does(n, "zero_side_effects") /\ cursors' = ZeroedSideEffects(cursors)
  <2>1. /\ Decided(n) /\ Undone(5) /\ ShouldZero(n) /\ todo[n] = Zeroing
        /\ root_states # <<>>
    BY <1>4, DoesInv, NextStatement, NextStatementInv
  <2>2. todo'[n] = Recording /\ \A m \in Nodes \ {n} : todo'[m] = todo[m]
    BY <1>1, <1>4, <2>1, DoesInv, ProceedForms
  <2>3. \A c \in cursors' : \E d \in cursors : c.ingest = d.ingest /\ c.handle = d.handle
    BY <1>2, <1>4 DEF ZeroedSideEffects, Cursors
  <2>4. Undone(5)' /\ "events" \notin tables'
    BY <1>1, <2>1, <2>3 DEF Undone, FromStart
  <2>5. Decided(n)'
    BY <1>1, <2>1 DEF Decided, Should, ShouldZero
  <2>6. SetupInv(n)' /\ \A j \in 1..5 : ~ Beginning(n, j)'
    <3>1. Recording \in AfterReset
      BY DEF AfterReset
    <3>2. \A j \in 1..5 : ~ Beginning(n, j)'
      BY <2>2, <3>1, PastComparing DEF Beginning
    <3> QED BY <2>2, <2>4, <2>5, <3>2 DEF SetupInv
  <2>7. \A m \in Nodes : (pc'[m] = "setup" => SetupInv(m)') /\ LoadedInv(m)'
    BY <1>4, <2>2, <2>6, DoesInv, StatementInv
  <2>8. IndexInv' /\ SideEffectsInv'
    BY <1>1, <1>4, <2>1, <2>2, <2>4, <2>6, DoesInv, DecidedInv DEF Decided
  <2> QED BY <2>7, <2>8
<1>5. CASE Does(n, "insert_contract_addresses") /\ cursors' = InsertedAddress(cursors)
  <2>1. Does(n, MigrationStatements[4])
    BY <1>5, StatementSequences
  <2>2. Migrating(n, 4) /\ Clean /\ Counted /\ root_states # <<>>
    BY <1>5, <2>1, DoesInv, NextStatement, NextStatementInv
  <2>3. Migrating(n, 5)' /\ \A m \in Nodes \ {n} : todo'[m] = todo[m]
    BY <1>1, <1>5, <2>2, DoesInv, ProceedForms
  <2>4. Clean' /\ Counted'
    <3>1. CASE cursors # {}
      <4>1. cursors' = cursors
        BY <1>5, <3>1 DEF InsertedAddress
      <4> QED BY <1>1, <2>2, <4>1 DEF Clean, Counted, Passed, Pending, Recorded
    <3>2. CASE cursors = {}
      <4>1. events = NoRows /\ versions = NoRows /\ side_effects = NoRows
        BY <3>2 DEF Types, DatabaseOK
      <4>2. \A c \in cursors' : c.ingest = StartBlockNumber /\ c.handle = StartBlockNumber
        BY <1>5, <3>2 DEF InsertedAddress
      <4>3. \A b \in Blocks : b \in Nat /\ ~ (b < StartBlockNumber)
        BY Constants DEF Blocks
      <4>4. Clean'
        BY <1>1, <4>1, <4>2, <4>3 DEF Clean, NoRows
      <4>5. \A b \in Blocks : side_effects'[b] = 0 /\ cut_off'[b] \in Nat
        BY <1>1, <4>1, CountTypes DEF NoRows
      <4>6. Recorded' \in Nat
        BY <1>1, <2>2, LastProperties DEF Recorded, Types, DatabaseOK, RootStates
      <4>7. Counted'
        BY <4>5, <4>6 DEF Counted
      <4> QED BY <4>4, <4>7
    <3> QED BY <3>1, <3>2
  <2> QED BY <1>5, <2>3, <2>4, DoesInv, CleanAndCounted
<1> QED BY <1>3, <1>4, <1>5 DEF UpdateCursors

LEMMA ExecuteStatementInv ==
    ASSUME Types, ResetInv, ~ overlapped, NEW n \in Nodes, ExecuteStatement(n)
    PROVE  /\ IndexInv' /\ SideEffectsInv'
           /\ \A m \in Nodes : (pc'[m] = "setup" => SetupInv(m)') /\ LoadedInv(m)'
<1>1. UNCHANGED <<pc, loaded, cut_off>>
  BY DEF ExecuteStatement, running
<1> QED BY <1>1, CreateTableInv, DropTableInv, SetupRootStateInv, MaybeResetInv,
           AppendRootStateInv, UpdateCursorsInv DEF ExecuteStatement

\* A node whose tasks run is the only one that writes.
LEMMA IndexingAlone ==
    ASSUME Types, ResetInv, ~ overlapped, NEW n \in Nodes, tasks[n] # {}
    PROVE  /\ \A m \in Nodes : pc[m] # "setup"
           /\ \A m \in Nodes \ {n} : loaded[m].ingest = 0 /\ loaded[m].block = 0
<1>1. \A m \in Nodes : m \in Writers => m = n
  BY DEF ResetInv, Alone, Writers
<1>2. pc[n] # "setup"
  BY DEF Types, TasksOK
<1> QED BY <1>1, <1>2 DEF Writers, Types, TasksOK

\* What a step of the tasks of n leaves to show: its own part of the invariant holds.
LEMMA IndexingInv ==
    ASSUME Types, ResetInv, ~ overlapped, NEW n \in Nodes, tasks[n] # {}, Index(n),
           \A m \in Nodes \ {n} : loaded'[m] = loaded[m], LoadedInv(n)',
           \/ index' = index /\ \A b \in Blocks : Pending(b)' <=> Pending(b)
           \/ Clean' /\ Counted'
    PROVE  /\ IndexInv' /\ SideEffectsInv'
           /\ \A m \in Nodes : (pc'[m] = "setup" => SetupInv(m)') /\ LoadedInv(m)'
<1>1. UNCHANGED <<tables, root_states, pc, todo, cut_off>>
  BY DEF Index, setup
<1>2. Undecided' = Undecided
  BY <1>1 DEF Undecided, Beginning
<1>3. IndexInv' /\ SideEffectsInv'
  <2>1. CASE index' = index /\ \A b \in Blocks : Pending(b)' <=> Pending(b)
    <3>1. UNCHANGED <<cursors, events, versions, side_effects>>
      BY <2>1 DEF index
    <3> QED BY <1>1, <1>2, <2>1, <3>1, SameIndex DEF ResetInv
  <2>2. CASE Clean' /\ Counted'
    BY <2>2 DEF IndexInv, SideEffectsInv
  <2> QED BY <2>1, <2>2
<1>4. \A m \in Nodes : pc'[m] # "setup"
  BY <1>1, IndexingAlone
<1>5. \A m \in Nodes \ {n} : LoadedInv(m)'
  BY IndexingAlone DEF LoadedInv
<1> QED BY <1>3, <1>4, <1>5

\* Where there is a table of events, no reset was interrupted.
LEMMA CleanWithEvents ==
    ASSUME Types, ResetInv, ~ overlapped, "events" \in tables, cursors # {}
    PROVE  /\ Clean /\ Counted /\ Recorded \in Nat
           /\ \E c \in Cursors : cursors = {c}
<1>1. root_states # <<>> /\ root_states \in Seq(RootStates) /\ DatabaseOK
  BY DEF Types, DatabaseOK
<1>2. Recorded \in Nat
  BY <1>1, LastProperties DEF Recorded, RootStates
<1> QED BY <1>1, <1>2, OneCursor DEF ResetInv, IndexInv, SideEffectsInv

LEMMA PanicTaskInv ==
    ASSUME Types, ResetInv, ~ overlapped, NEW n \in Nodes, NEW task \in Tasks,
           task = "handlers" => ~ loaded[n].is_open,
           PanicTask(n, task), tasks[n] # {}, Index(n)
    PROVE  /\ IndexInv' /\ SideEffectsInv'
           /\ \A m \in Nodes : (pc'[m] = "setup" => SetupInv(m)') /\ LoadedInv(m)'
<1>1. /\ UNCHANGED <<cursors, events, versions, side_effects>>
      /\ UNCHANGED tables /\ index' = index
  BY DEF PanicTask, index, Index
<1>2. LoadedInv(n)'
  BY <1>1, PanicTaskTypes DEF LoadedInv, ResetInv
<1>3. \A b \in Blocks : Pending(b)' <=> Pending(b)
  <2>1. /\ loaded'[n].is_open = loaded[n].is_open
        /\ \A m \in Nodes \ {n} : loaded'[m] = loaded[m]
        /\ loaded'[n].is_open => loaded'[n].block # 0
        /\ loaded'[n].block # 0 => /\ loaded'[n].block = loaded[n].block
                                   /\ loaded'[n].side_effects = loaded[n].side_effects
    BY PanicTaskTypes
  <2> QED BY <2>1, SamePending
<1> QED BY <1>1, <1>2, <1>3, PanicTaskTypes, IndexingInv

LEMMA LoadToIngestInv ==
    ASSUME Types, ResetInv, ~ overlapped, NEW n \in Nodes, LoadToIngest(n), Index(n)
    PROVE  /\ IndexInv' /\ SideEffectsInv'
           /\ \A m \in Nodes : (pc'[m] = "setup" => SetupInv(m)') /\ LoadedInv(m)'
<1>1. PICK c \in cursors : /\ c.ingest <= MaxBlockNumber
                           /\ loaded' = [loaded EXCEPT ![n].ingest = c.ingest]
  BY DEF LoadToIngest
<1>2. c.ingest \in Blocks /\ \A d \in cursors : d = c
  BY <1>1, Constants DEF Types, DatabaseOK, Cursors, Positions, Blocks
<1>3. /\ UNCHANGED <<tables, cursors>> /\ index' = index
      /\ tasks[n] # {}
  BY DEF LoadToIngest, Index, index
<1>4. /\ \A m \in Nodes \ {n} : loaded'[m] = loaded[m]
      /\ loaded'[n].ingest = c.ingest /\ loaded'[n].block = loaded[n].block
      /\ loaded'[n].side_effects = loaded[n].side_effects
      /\ loaded'[n].is_open = loaded[n].is_open
  BY <1>1, <1>2, LoadedIngest DEF Types, TasksOK
<1>5. LoadedInv(n)'
  BY <1>2, <1>3, <1>4 DEF LoadedInv, ResetInv
<1>6. \A b \in Blocks : Pending(b)' <=> Pending(b)
  BY <1>4, SamePending
<1> QED BY <1>3, <1>4, <1>5, <1>6, IndexingInv

LEMMA IngestInv ==
    ASSUME Types, ResetInv, ~ overlapped, NEW n \in Nodes, Ingest(n), Index(n)
    PROVE  /\ IndexInv' /\ SideEffectsInv'
           /\ \A m \in Nodes : (pc'[m] = "setup" => SetupInv(m)') /\ LoadedInv(m)'
<1> DEFINE b == loaded[n].ingest
<1>1. b \in Blocks /\ b # 0 /\ cursors # {} /\ tasks[n] # {} /\ LoadedInv(n)
  BY DEF Ingest, Types, TasksOK, Loads, ResetInv
<1>2. UNCHANGED <<tables, root_states>>
  BY DEF Index
<1>3. CASE PanicTask(n, "ingester")
  BY <1>1, <1>3, PanicTaskInv DEF Tasks
<1>4. CASE /\ "events" \in tables
           /\ events' = [events EXCEPT ![b] = AtMostTwo(@ + 1)]
           /\ cursors' = {[c EXCEPT !.ingest = b + 1] : c \in cursors}
           /\ loaded' = [loaded EXCEPT ![n].ingest = 0]
           /\ UNCHANGED <<tasks, versions, side_effects>>
  <2>1. PICK c \in Cursors : cursors = {c}
    BY <1>1, <1>4, CleanWithEvents
  <2> DEFINE moved == [c EXCEPT !.ingest = b + 1]
  <2>2. /\ cursors' = {moved} /\ moved.ingest = b + 1 /\ moved.handle = c.handle
        /\ moved.side_effects = c.side_effects /\ c.ingest = b
    BY <1>1, <1>4, <2>1 DEF Cursors, LoadedInv
  <2> HIDE DEF moved
  <2>3. Clean /\ Counted /\ events \in [Blocks -> 0..2]
    BY <1>1, <1>4, CleanWithEvents DEF Types, DatabaseOK
  <2>4. Clean'
    <3> HIDE DEF b
    <3>0. \A d \in Blocks : d \in Nat
      BY Constants
    <3>1. events[b] = 0
      BY <1>1, <2>1, <2>2, <2>3, <3>0 DEF Clean
    <3>2. events'[b] = 1 /\ \A d \in Blocks \ {b} : events'[d] = events[d]
      BY <1>1, <1>4, <2>3, <3>1 DEF AtMostTwo
    <3>3. \A d \in Blocks \ {b} : events'[d] = IF d < b THEN 1 ELSE 0
      BY <2>1, <2>2, <2>3, <3>2 DEF Clean
    <3>4. \A d \in Blocks : events'[d] = IF d < b + 1 THEN 1 ELSE 0
      BY <1>1, <3>0, <3>2, <3>3
    <3>5. \A d \in Blocks : versions'[d] = IF d < c.handle THEN 1 ELSE 0
      BY <1>4, <2>1, <2>3 DEF Clean
    <3> QED BY <2>2, <3>4, <3>5 DEF Clean
  <2>6. 0 \in {0} \cup Blocks /\ loaded \in [Nodes -> Loads]
    BY DEF Types, TasksOK
  <2>7. /\ \A m \in Nodes \ {n} : loaded'[m] = loaded[m]
        /\ loaded'[n].ingest = 0 /\ loaded'[n].block = loaded[n].block
        /\ loaded'[n].side_effects = loaded[n].side_effects
        /\ loaded'[n].is_open = loaded[n].is_open
    BY <1>4, <2>6, LoadedIngest
  <2>5. Counted'
    <3>1. \A d \in Blocks : Pending(d)' <=> Pending(d)
      BY <2>7, SamePending
    <3>2. \A d \in Blocks : Passed(d)' <=> Passed(d)
      BY <2>1, <2>2 DEF Passed
    <3>3. Recorded' = Recorded /\ UNCHANGED <<side_effects, cut_off>>
      BY <1>2, <1>4 DEF Recorded, Index
    <3> QED BY <2>3, <3>1, <3>2, <3>3 DEF Counted
  <2>8. LoadedInv(n)'
    BY <1>1, <1>2, <2>1, <2>2, <2>7 DEF LoadedInv
  <2> QED BY <1>1, <2>4, <2>5, <2>7, <2>8, IndexingInv
<1> QED BY <1>3, <1>4 DEF Ingest

\* The block handlers::start finds next is the one the handle cursor is at.
LEMMA LoadToHandleInv ==
    ASSUME Types, ResetInv, ~ overlapped, NEW n \in Nodes, LoadToHandle(n), Index(n)
    PROVE  /\ IndexInv' /\ SideEffectsInv'
           /\ \A m \in Nodes : (pc'[m] = "setup" => SetupInv(m)') /\ LoadedInv(m)'
<1>1. tasks[n] # {} /\ ~ loaded[n].is_open
  BY DEF LoadToHandle, Types, TasksOK
<1>2. CASE PanicTask(n, "handlers")
  BY <1>1, <1>2, PanicTaskInv DEF Tasks
<1>3. CASE /\ "events" \in tables
           /\ \E c \in cursors, b \in Blocks :
                 /\ IsNextToHandle(b, c)
                 /\ loaded' = [loaded EXCEPT ![n].block = b, ![n].side_effects = c.side_effects]
           /\ UNCHANGED <<tasks, index>>
  <2>1. PICK c \in cursors, b \in Blocks :
          /\ IsNextToHandle(b, c)
          /\ loaded' = [loaded EXCEPT ![n].block = b, ![n].side_effects = c.side_effects]
    BY <1>3
  <2>2. Clean /\ \A d \in cursors : d = c
    BY <1>3, <2>1, CleanWithEvents
  <2>3. /\ c.side_effects \in 0..MaxBlockNumber + 1 /\ c.handle \in Nat /\ c.ingest \in Nat
        /\ c.handle >= StartBlockNumber
    BY <2>1 DEF Types, DatabaseOK, Cursors, Positions
  <2>4. b = c.handle
    <3>1. /\ b >= c.handle /\ events[b] > 0
          /\ \A d \in Blocks : d >= c.handle /\ events[d] > 0 => b <= d
      BY <2>1 DEF IsNextToHandle
    <3>2. b < c.ingest
      BY <2>1, <2>2, <3>1 DEF Clean
    <3> SUFFICES ASSUME b # c.handle PROVE FALSE
      OBVIOUS
    <3>3. c.handle < b /\ c.handle \in Blocks /\ c.handle < c.ingest
      BY <2>3, <3>1, <3>2, Constants DEF Blocks
    <3>4. events[c.handle] = 1
      BY <2>1, <2>2, <3>3 DEF Clean
    <3> QED BY <2>3, <3>1, <3>3, <3>4, Constants DEF Blocks
  <2>5. /\ \A m \in Nodes \ {n} : loaded'[m] = loaded[m]
        /\ loaded'[n].ingest = loaded[n].ingest
        /\ loaded'[n].block = b /\ loaded'[n].side_effects = c.side_effects
        /\ loaded'[n].is_open = loaded[n].is_open
    <3> DEFINE from == c.side_effects
    <3>1. b \in {0} \cup Blocks /\ loaded \in [Nodes -> Loads]
      BY DEF Types, TasksOK
    <3>2. /\ loaded' = [loaded EXCEPT ![n].block = b, ![n].side_effects = from]
          /\ from \in 0..MaxBlockNumber + 1
      BY <2>1, <2>3
    <3> HIDE DEF from
    <3>3. /\ \A m \in Nodes \ {n} : loaded'[m] = loaded[m]
          /\ loaded'[n] = [loaded[n] EXCEPT !.block = b, !.side_effects = from]
          /\ loaded[n] \in Loads
      BY <3>1, <3>2
    <3>4. /\ loaded'[n].ingest = loaded[n].ingest
          /\ loaded'[n].block = b /\ loaded'[n].side_effects = from
          /\ loaded'[n].is_open = loaded[n].is_open
      BY <3>3 DEF Loads
    <3> QED BY <3>3, <3>4 DEF from
  <2>6. UNCHANGED <<tables, cursors>> /\ index' = index
    BY <1>3 DEF Index, index
  <2>7. LoadedInv(n)'
    BY <1>3, <2>2, <2>4, <2>5, <2>6 DEF LoadedInv, ResetInv
  <2>8. \A d \in Blocks : Pending(d)' <=> Pending(d)
    BY <1>1, <2>5, SamePending
  <2> QED BY <1>1, <2>5, <2>6, <2>7, <2>8, IndexingInv
<1> QED BY <1>2, <1>3 DEF LoadToHandle

\* The side effects of a block that is about to be committed ran before only if a
\* transaction was cut off.
LEMMA RunHandlersInv ==
    ASSUME Types, ResetInv, ~ overlapped, NEW n \in Nodes, RunHandlers(n), Index(n)
    PROVE  /\ IndexInv' /\ SideEffectsInv'
           /\ \A m \in Nodes : (pc'[m] = "setup" => SetupInv(m)') /\ LoadedInv(m)'
<1> DEFINE b == loaded[n].block
           from == loaded[n].side_effects
<1>1. /\ b \in Blocks /\ b # 0 /\ from \in Nat /\ cursors # {} /\ tasks[n] # {}
      /\ LoadedInv(n) /\ ~ loaded[n].is_open
  BY Constants DEF RunHandlers, Types, TasksOK, Loads, ResetInv
<1>2. UNCHANGED <<tables, root_states, cut_off>>
  BY DEF Index
<1>3. CASE PanicTask(n, "handlers")
  BY <1>1, <1>3, PanicTaskInv DEF Tasks
<1>4. CASE /\ loaded' = [loaded EXCEPT ![n].is_open = TRUE]
           /\ side_effects' = IF RunsSideEffects(b, from)
                              THEN [side_effects EXCEPT ![b] = @ + 1] ELSE side_effects
           /\ UNCHANGED <<tasks, cursors, events, versions>>
  <2>1. /\ \A m \in Nodes \ {n} : loaded'[m] = loaded[m]
        /\ loaded'[n].ingest = loaded[n].ingest /\ loaded'[n].block = b
        /\ loaded'[n].side_effects = from /\ loaded'[n].is_open
    BY <1>4, Opened DEF Types, TasksOK
  <2>2. LoadedInv(n)'
    BY <1>1, <1>2, <1>4, <2>1 DEF LoadedInv
  <2>3. PICK c \in Cursors : cursors = {c}
    BY <1>1, CleanWithEvents DEF LoadedInv
  <2>4. Clean /\ Counted /\ c.handle = b /\ c.side_effects = from
    BY <1>1, <2>3, CleanWithEvents DEF LoadedInv
  <2>5. Clean'
    BY <1>4, <2>4 DEF Clean
  <2>6. \A d \in Blocks : /\ ~ Pending(d)
                          /\ Pending(d)' <=> d = b /\ RunsSideEffects(b, from)
    <3>1. \A m \in Nodes : ~ loaded[m].is_open
      BY <1>1, IndexingAlone DEF Types, TasksOK
    <3> HIDE DEF b, from
    <3> QED BY <2>1, <3>1 DEF Pending
  <2>7. \A d \in Blocks : (Passed(d)' <=> Passed(d)) /\ (Passed(d) <=> d < from)
    BY <1>4, <2>3, <2>4 DEF Passed
  <2>8. Recorded' = Recorded
    BY <1>2 DEF Recorded
  <2> HIDE DEF b, from
  <2>9. \A d \in Blocks : side_effects[d] <= Recorded + cut_off[d] + IF d < from THEN 1 ELSE 0
    BY <2>4, <2>6, <2>7 DEF Counted
  <2>10. CASE RunsSideEffects(b, from)
    <3>1. side_effects'[b] = side_effects[b] + 1
          /\ \A d \in Blocks \ {b} : side_effects'[d] = side_effects[d]
      BY <1>1, <1>4, <2>10 DEF Types, DatabaseOK
    <3>2. side_effects[b] <= Recorded + cut_off[b]
          /\ side_effects[b] \in Nat /\ cut_off[b] \in Nat /\ Recorded \in Nat
      <4>1. ~ (b < from) /\ b \in Nat
        BY <1>1, <2>10, Constants DEF RunsSideEffects
      <4>2. Recorded \in Nat /\ side_effects[b] \in Nat /\ cut_off[b] \in Nat
        BY <1>1, CountTypes DEF Types, DatabaseOK
      <4> QED BY <1>1, <2>9, <4>1, <4>2
    <3>3. side_effects'[b] <= Recorded + cut_off[b] + 1
      BY <3>1, <3>2
    <3>4. Counted'
      BY <1>2, <2>6, <2>7, <2>8, <2>9, <2>10, <3>1, <3>3 DEF Counted
    <3> QED BY <1>1, <2>1, <2>2, <2>5, <3>4, IndexingInv
  <2>11. CASE ~ RunsSideEffects(b, from)
    <3>1. side_effects' = side_effects
      BY <1>4, <2>11
    <3>2. Counted'
      BY <1>2, <2>6, <2>7, <2>8, <2>9, <2>11, <3>1 DEF Counted
    <3> QED BY <1>1, <2>1, <2>2, <2>5, <3>2, IndexingInv
  <2> QED BY <2>10, <2>11
<1> QED BY <1>3, <1>4 DEF RunHandlers

\* A block's changes and the cursor behind it are one transaction, so that the changes
\* are not applied twice.
LEMMA CommitHandledInv ==
    ASSUME Types, ResetInv, ~ overlapped, NEW n \in Nodes, CommitHandled(n), Index(n)
    PROVE  /\ IndexInv' /\ SideEffectsInv'
           /\ \A m \in Nodes : (pc'[m] = "setup" => SetupInv(m)') /\ LoadedInv(m)'
<1> DEFINE b == loaded[n].block
           from == loaded[n].side_effects
           moved(c) == HandledCursor(c, b, from)
<1>1. /\ b \in Blocks /\ b # 0 /\ from \in Nat /\ cursors # {} /\ tasks[n] # {}
      /\ LoadedInv(n) /\ loaded[n].is_open /\ "events" \in tables
  BY Constants DEF CommitHandled, Types, TasksOK, Loads, ResetInv, LoadedInv
<1>2. UNCHANGED <<tables, root_states, cut_off>>
  BY DEF Index
<1>3. /\ versions' = [versions EXCEPT ![b] = AtMostTwo(@ + 1)]
      /\ cursors' = {moved(c) : c \in cursors}
      /\ UNCHANGED <<tasks, events, side_effects>>
  BY DEF CommitHandled
<1>4. PICK c \in Cursors : cursors = {c}
  BY <1>1, CleanWithEvents
<1>5. /\ Clean /\ Counted /\ Recorded \in Nat /\ versions \in [Blocks -> 0..2]
  BY <1>1, CleanWithEvents DEF Types, DatabaseOK
<1>6. c.handle = b /\ c.side_effects = from
  BY <1>1, <1>4 DEF LoadedInv
<1>7. /\ cursors' = {moved(c)} /\ moved(c).ingest = c.ingest /\ moved(c).handle = b + 1
      /\ moved(c).side_effects = IF b + 1 > from THEN b + 1 ELSE from
  BY <1>3, <1>4, <1>6 DEF HandledCursor, Cursors
<1>8. /\ \A m \in Nodes \ {n} : loaded'[m] = loaded[m]
      /\ loaded'[n].ingest = loaded[n].ingest /\ loaded'[n].block = 0 /\ ~ loaded'[n].is_open
  BY Closed DEF CommitHandled, Types, TasksOK
<1>9. LoadedInv(n)'
  BY <1>1, <1>4, <1>7, <1>8 DEF LoadedInv
<1>10. \A d \in Blocks : d \in Nat
  BY Constants
<1>11. \A d \in Blocks : /\ Pending(d) => d = b /\ RunsSideEffects(b, from)
                         /\ ~ Pending(d)'
  <2>1. \A m \in Nodes \ {n} : ~ loaded[m].is_open /\ ~ loaded'[m].is_open
    BY <1>1, <1>8, IndexingAlone DEF Types, TasksOK
  <2> QED BY <1>8, <2>1 DEF Pending
<1> HIDE DEF b, from, moved
<1>12. Clean'
  <2>1. versions[b] = 0
    BY <1>1, <1>4, <1>5, <1>6, <1>10 DEF Clean
  <2>2. versions'[b] = 1 /\ \A d \in Blocks \ {b} : versions'[d] = versions[d]
    BY <1>1, <1>3, <1>5, <2>1 DEF AtMostTwo
  <2>3. \A d \in Blocks \ {b} : versions'[d] = IF d < b THEN 1 ELSE 0
    BY <1>4, <1>5, <1>6, <2>2 DEF Clean
  <2>4. \A d \in Blocks : versions'[d] = IF d < b + 1 THEN 1 ELSE 0
    BY <1>1, <1>10, <2>2, <2>3
  <2>5. \A d \in Blocks : events'[d] = IF d < c.ingest THEN 1 ELSE 0
    BY <1>3, <1>4, <1>5 DEF Clean
  <2> QED BY <1>7, <2>4, <2>5 DEF Clean
<1>13. \A d \in Blocks : Passed(d) \/ Pending(d) => Passed(d)'
  <2>1. \A d \in Blocks : Passed(d) <=> d < from
    BY <1>4, <1>6 DEF Passed
  <2>2. \A d \in Blocks : Passed(d)' <=> d < moved(c).side_effects
    BY <1>7 DEF Passed
  <2>3. \A d \in Blocks : d < from => d < moved(c).side_effects
    BY <1>1, <1>7, <1>10
  <2>4. RunsSideEffects(b, from) => b < moved(c).side_effects
    BY <1>1, <1>7, <1>10 DEF RunsSideEffects
  <2> QED BY <1>11, <2>1, <2>2, <2>3, <2>4
<1>14. Counted'
  <2>1. Recorded' = Recorded /\ \A d \in Blocks : side_effects[d] \in Nat /\ cut_off[d] \in Nat
    BY <1>2, CountTypes DEF Recorded
  <2>2. ASSUME NEW d \in Blocks
        PROVE  side_effects[d] <= Recorded + cut_off[d]
                                  + IF Passed(d)' \/ Pending(d)' THEN 1 ELSE 0
    <3>1. side_effects[d] <= Recorded + cut_off[d]
                             + IF Passed(d) \/ Pending(d) THEN 1 ELSE 0
      BY <1>5 DEF Counted
    <3>2. CASE Passed(d) \/ Pending(d)
      <4>1. Passed(d)'
        BY <1>13, <3>2
      <4> QED BY <3>1, <3>2, <4>1
    <3>3. CASE ~ (Passed(d) \/ Pending(d))
      <4>1. side_effects[d] <= Recorded + cut_off[d]
        BY <1>5, <2>1, <3>1, <3>3
      <4> QED BY <1>5, <2>1, <4>1
    <3> QED BY <3>2, <3>3
  <2> QED BY <1>2, <1>3, <2>1, <2>2 DEF Counted
<1> QED BY <1>1, <1>8, <1>9, <1>12, <1>14, IndexingInv

LEMMA StepResetInv ==
    ASSUME Types, ResetInv, [Next]_vars
    PROVE  ResetInv'
<1>1. CASE Next
  <2> SUFFICES ASSUME ~ overlapped'
               PROVE  /\ Alone' /\ IndexInv' /\ SideEffectsInv'
                      /\ \A n \in Nodes : pc'[n] = "setup" => SetupInv(n)'
                      /\ \A n \in Nodes : LoadedInv(n)'
    BY DEF ResetInv
  <2>1. ~ overlapped /\ Alone'
    BY <1>1, StillAlone
  <2>2. CASE PassSecond
    BY <2>1, <2>2, QuietSecond
  <2>3. ASSUME NEW n \in Nodes,
               SetupNodes(n) \/ Boot(n) \/ Round(n) \/ Index(n) \/ Crash(n) \/ Heartbeat(n)
        PROVE  /\ IndexInv' /\ SideEffectsInv'
               /\ \A m \in Nodes : (pc'[m] = "setup" => SetupInv(m)') /\ LoadedInv(m)'
    <3>1. CASE ExecuteStatement(n)
      BY <2>1, <3>1, ExecuteStatementInv
    <3>2. CASE Index(n)
      <4>1. \/ LoadToIngest(n) \/ Ingest(n) \/ LoadToHandle(n) \/ RunHandlers(n)
            \/ CommitHandled(n)
        BY <3>2 DEF Index
      <4> QED BY <2>1, <3>2, <4>1, LoadToIngestInv, IngestInv, LoadToHandleInv,
                 RunHandlersInv, CommitHandledInv
    <3>3. CASE \/ SetupNodes(n) \/ CreateNode(n) \/ StartSetup(n) \/ StartLoop(n)
               \/ KeepNodeActive(n) \/ Elect(n) \/ RunTasks(n) \/ Crash(n) \/ Heartbeat(n)
      BY <2>1, <3>3, QuietActions
    <3> QED BY <2>3, <3>1, <3>2, <3>3 DEF Boot, Round
  <2>4. /\ IndexInv' /\ SideEffectsInv'
        /\ \A m \in Nodes : (pc'[m] = "setup" => SetupInv(m)') /\ LoadedInv(m)'
    BY <1>1, <2>2, <2>3 DEF Next, Step
  <2> QED BY <2>1, <2>4
<1>2. CASE UNCHANGED vars
  <2>1. /\ UNCHANGED <<pc, todo, root, tasks, overlapped>> /\ UNCHANGED database /\ MayStop
    BY <1>2 DEF vars, setup, running, MayStop
  <2> SUFFICES ASSUME ~ overlapped' PROVE ResetInv'
    BY DEF ResetInv
  <2>2. Undecided' \subseteq Undecided
    BY <2>1 DEF Undecided, Beginning
  <2>3. Alone'
    BY <2>1 DEF ResetInv, Alone, Writers, Booting
  <2> QED BY <2>1, <2>2, <2>3, QuietStep DEF ResetInv
<1> QED BY <1>1, <1>2

LEMMA ResetInvariant == Spec => [](Types /\ ResetInv)
BY InitTypes, InitResetInv, NextTypes, StepResetInv, PTL DEF Spec

\* With no two nodes writing at once, wherever tasks can run the events are those below
\* the ingest cursor and the states those below the handle cursor, once each, whichever
\* statement of whichever reset a crash came after (booting::maybe_reset).
THEOREM IndexAlwaysMatches == Spec => []IndexMatchesCursors
<1>1. Types /\ ResetInv => IndexMatchesCursors
  BY DEF ResetInv, IndexInv, Clean, IndexMatchesCursors, Indexable
<1> QED BY <1>1, ResetInvariant, PTL

\* With no two nodes writing at once, a block's side effects run once, once more per
\* reset including side effects that is recorded, and once more per transaction that a
\* crash or an abort cut off after them: nothing else repeats them.  A reset that
\* crashes before it zeroes the cursors runs none of them again, and one that crashes
\* after is done again before anything is indexed (Config::reset, handle_events::run).
THEOREM SideEffectsRunOnce == Spec => []SideEffectsOncePerReset
<1>1. Types /\ ResetInv => SideEffectsOncePerReset
  <2> SUFFICES ASSUME Types, ResetInv, ~ overlapped,
                      NEW b \in Blocks, side_effects[b] > 0
               PROVE  side_effects[b] <= 1 + Recorded + cut_off[b]
    BY DEF SideEffectsOncePerReset, Recorded
  <2>1. root_states # <<>>
    <3>1. side_effects # NoRows
      BY DEF NoRows
    <3> QED BY <3>1 DEF Types, DatabaseOK
  <2>2. Recorded \in Nat /\ side_effects[b] \in Nat /\ cut_off[b] \in Nat
    BY <2>1, CountTypes
  <2>3. side_effects[b] <= Recorded + cut_off[b] + 1
    BY <2>1, <2>2 DEF ResetInv, SideEffectsInv, Counted
  <2> QED BY <2>2, <2>3
<1> QED BY <1>1, ResetInvariant, PTL

\* Only append_root_state changes the last root state, and what it records is done.
LEMMA RecordedLast ==
    ASSUME Types, ResetInv, [Next]_vars, root_states # <<>>, root_states' # <<>>,
           Last(root_states') # Last(root_states), ~ overlapped'
    PROVE  /\ tables' \cap {"events", "reorged_blocks", "states"} = {}
           /\ \A c \in cursors' : c.ingest = StartBlockNumber /\ c.handle = StartBlockNumber
<1>1. Next
  BY DEF vars, database
<1>2. ~ overlapped
  BY <1>1, StillAlone
<1>3. PICK n \in Nodes : AppendRootState(n)
  <2>1. CASE PassSecond
    BY <2>1 DEF PassSecond, database
  <2>2. ASSUME NEW n \in Nodes,
               SetupNodes(n) \/ Boot(n) \/ Round(n) \/ Index(n) \/ Crash(n) \/ Heartbeat(n)
        PROVE  AppendRootState(n)
    <3>1. CASE ExecuteStatement(n)
      <4>1. CASE CreateTable(n)
        BY <4>1 DEF CreateTable
      <4>2. CASE DropTable(n)
        BY <4>2 DEF DropTable
      <4>3. CASE SetupRootState(n)
        BY <4>3, SetupRootStateTypes
      <4>4. CASE MaybeReset(n)
        BY <4>4 DEF MaybeReset, database
      <4>5. CASE UpdateCursors(n)
        BY <4>5 DEF UpdateCursors
      <4> QED BY <3>1, <4>1, <4>2, <4>3, <4>4, <4>5 DEF ExecuteStatement
    <3>2. CASE Index(n)
      BY <3>2 DEF Index
    <3>3. CASE \/ SetupNodes(n) \/ CreateNode(n) \/ StartSetup(n) \/ StartLoop(n)
               \/ KeepNodeActive(n) \/ Elect(n) \/ RunTasks(n) \/ Crash(n) \/ Heartbeat(n)
      BY <3>3 DEF SetupNodes, CreateNode, StartSetup, StartLoop, KeepNodeActive, Elect,
                  RunTasks, Crash, Heartbeat, database
    <3> QED BY <2>2, <3>1, <3>2, <3>3 DEF Boot, Round
  <2> QED BY <1>1, <2>1, <2>2 DEF Next, Step
<1>4. Undone(5)
  BY <1>2, <1>3, DoesInv, NextStatementInv DEF AppendRootState
<1>5. UNCHANGED <<tables, cursors>>
  BY <1>3 DEF AppendRootState, index
<1> QED BY <1>4, <1>5 DEF Undone, FromStart

\* With no two nodes writing at once, a root state that asks for more than the last one
\* is appended over dropped tables and restarted cursors only: a crash before that
\* leaves the reset to the next node (booting::maybe_reset).
THEOREM ResetsRecordedLast == Spec => ResetsAreRecordedLast
<1>1. Types /\ ResetInv /\ [Next]_vars =>
        [root_states # <<>> /\ root_states' # <<>> /\ Last(root_states') # Last(root_states)
          /\ ~ overlapped' =>
             /\ tables' \cap {"events", "reorged_blocks", "states"} = {}
             /\ \A c \in cursors' : c.ingest = StartBlockNumber /\ c.handle = StartBlockNumber
        ]_vars
  BY RecordedLast
<1> QED BY <1>1, ResetInvariant, PTL DEF Spec, ResetsAreRecordedLast
=============================================================================
