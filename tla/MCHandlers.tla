----------------------------- MODULE MCHandlers -----------------------------
(* Instances of Handlers for TLC: short chains, one or two contract         *)
(* addresses, and an event in most blocks of each version of a chain.       *)
EXTENDS Handlers, TLC

CONSTANTS Main, Side    \* chain ids

Pool == [chain_id |-> Main, address |-> "0xpool", start_block_number |-> 1]
Token == [chain_id |-> Main, address |-> "0xtoken", start_block_number |-> 2]
SidePool == [chain_id |-> Side, address |-> "0xpool", start_block_number |-> 2]

OnlyPool == {Pool}
PoolAndToken == {Pool, Token}
BothPools == {Pool, SidePool}

\* With ChunkSize = 1, the token's row ends a chunk and begins the next.
MCId == [r \in ContractAddresses |-> CASE r = Pool -> 1 [] r = Token -> 2 [] r = SidePool -> 3]

Emitted(r, abi, blocks, index) ==
    {[row |-> r, abi |-> abi, block_number |-> b, log_index |-> index, fork |-> f] :
        b \in {n \in blocks : n >= r.start_block_number}, f \in Forks}

\* Version f of a chain skips block f + 1 for the pool.
PoolEvents(r) == {e \in Emitted(r, "Swap", BlockNumbers \ {0}, 0) : e.block_number # e.fork + 1}
TokenEvents == Emitted(Token, "Transfer", BlockNumbers, 2)

OnePool == PoolEvents(Pool)
TwoPools == PoolEvents(Pool) \cup PoolEvents(SidePool)
WithToken == PoolEvents(Pool) \cup TokenEvents
\* Two swaps in every block.
Busy == PoolEvents(Pool) \cup {[e EXCEPT !.log_index = 1] : e \in PoolEvents(Pool)}
BusyWithToken == Busy \cup TokenEvents

MCPureAbis == {"Swap", "Transfer"}
MCSideEffectAbis == {"Swap"}
Balances == {"balances"}
NoTables == {}
NoAbis == {}
MCTableOf == [abi \in MCPureAbis |-> "balances"]
BalancesAndOwners == {"balances", "owners"}
TokensOwned == [Swap |-> "balances", Transfer |-> "owners"]
=============================================================================
