------------------------------ MODULE EventFeed ------------------------------
(***************************************************************************)
(* What the ingester promises the handlers, who read its tables and know   *)
(* nothing of providers, batches and transactions.                         *)
(*                                                                         *)
(* Per contract address there is a mirror of the chain, block by block,    *)
(* and a cursor.  The cursor moves forward over blocks whose events are in *)
(* the mirror by then; what lies in the mirror is changed only together    *)
(* with an announcement that says from which block on, or by pruning.      *)
(* Ingester implements this specification (Ingester!ImplementsFeed).       *)
(***************************************************************************)
EXTENDS Integers, Sequences

CONSTANTS
    Rows,          \* contract addresses of contracts in Config:
                   \* [chain_id, start_block_number, ...]
    BlockNumbers,
    Blocks,        \* per chain and block number, the hashes the block may have
    Emitted        \* per row and block hash, the events of the row in the block

VARIABLES
    rows,           \* those the ingester knows of
    served,         \* hashes of the blocks the chains have had so far: of a
                    \* block number none, one, or several after a re-organization
    mirror,         \* per row and block, the events the tables hold
    cursor,         \* per row, the next block number to ingest from
    announced,      \* re-organizations announced: [chain_id, block_number]
    pruned_below    \* per chain

vars == <<rows, served, mirror, cursor, announced, pruned_below>>

Init ==
    /\ rows \subseteq Rows
    /\ mirror = [r \in Rows |-> [b \in BlockNumbers |-> {}]]
    /\ cursor = [r \in Rows |-> r.start_block_number]
    /\ announced = <<>>

\* The versions a block has had, each as the row's events in it
Versions(r, b) == {Emitted[r][h] : h \in served \cap Blocks[r.chain_id][b]}

\* A chain grows or re-organizes: blocks gain versions.
Serve ==
    /\ served \subseteq served'
    /\ UNCHANGED <<rows, cursor, announced, pruned_below, mirror>>

Include(r) ==
    /\ rows' = rows \cup {r}
    /\ UNCHANGED <<served, mirror, cursor, announced, pruned_below>>

Passed(r, b) == cursor[r] <= b /\ b < cursor'[r]

\* Cursors move forward, and of every block they pass a whole version is added.
Advance ==
    /\ UNCHANGED <<rows, served, announced, pruned_below>>
    /\ \A r \in Rows :
          /\ cursor[r] <= cursor'[r]
          /\ cursor'[r] # cursor[r] => r \in rows
          /\ \A b \in BlockNumbers :
                IF Passed(r, b) THEN \E v \in Versions(r, b) : mirror'[r][b] = mirror[r][b] \cup v
                                ELSE mirror'[r][b] = mirror[r][b]

Changed(r, b) == mirror'[r][b] # mirror[r][b]

\* Blocks of one chain are replaced by versions they have had.  Ahead of the cursor, where
\* the tables may hold events too early, they may also be emptied.
Repair(c) ==
    /\ UNCHANGED <<rows, served, cursor, pruned_below>>
    /\ \A r \in Rows : \A b \in BlockNumbers : Changed(r, b) =>
          /\ r.chain_id = c
          /\ r \in rows
          /\ \/ mirror'[r][b] \in Versions(r, b)
             \/ b >= cursor[r] /\ mirror'[r][b] = {}
    /\ \E r \in Rows, b \in BlockNumbers :
          /\ Changed(r, b)
          /\ \A s \in Rows : \A a \in BlockNumbers : Changed(s, a) => b <= a
          /\ announced' = Append(announced, [chain_id |-> c, block_number |-> b])

\* The oldest blocks of a chain are emptied.
Prune(c) ==
    /\ UNCHANGED <<rows, served, cursor, announced>>
    /\ \E below \in BlockNumbers :
          /\ mirror' = [r \in Rows |-> [b \in BlockNumbers |->
                          IF r.chain_id = c /\ b < below THEN {} ELSE mirror[r][b]]]
          /\ pruned_below' = [pruned_below EXCEPT ![c] = IF @ >= below THEN @ ELSE below]

Next ==
    \/ Serve
    \/ Advance
    \/ \E r \in Rows : Include(r)
    \/ \E c \in DOMAIN pruned_below : Repair(c) \/ Prune(c)

Spec == Init /\ [][Next]_vars

\* No block behind a cursor is forgotten: of each the mirror holds a whole version.
Coverage ==
    \A r \in Rows : \A b \in BlockNumbers :
        r.start_block_number <= b /\ b < cursor[r] /\ b >= pruned_below[r.chain_id]
        => \E v \in Versions(r, b) : v \subseteq mirror[r][b]
=============================================================================
