----------------------------- MODULE MCIngester -----------------------------
(* Instances of Ingester for TLC: one or two short chains, two branches of  *)
(* which compete, and contracts with one or two subscribed events.          *)
EXTENDS Ingester, TLC

CONSTANTS Main, Side    \* chain ids

-----------------------------------------------------------------------------
(* Contract addresses *)
Pool == [id |-> 1, chain_id |-> Main, address |-> "0xpool", contract_name |-> "Pool",
         start_block_number |-> 1]
Token == [id |-> 3, chain_id |-> Main, address |-> "0xtoken", contract_name |-> "Token",
          start_block_number |-> 2]
\* A row left behind by a contract no longer in Config.
Retired == [id |-> 2, chain_id |-> Main, address |-> "0xretired", contract_name |-> "Retired",
            start_block_number |-> 1]
SidePool == [id |-> 4, chain_id |-> Side, address |-> "0xsidepool", contract_name |-> "Pool",
             start_block_number |-> 1]
\* Deployed at the address it has on the main chain too.
SharedPool == [Pool EXCEPT !.id = 4, !.chain_id = Side]

MCPureHandlers == [Pool |-> {"Swap", "Mint"}, Token |-> {"Transfer"}]

-----------------------------------------------------------------------------
(* Branches: "a" from genesis, others leaving it at some block *)
Branch(c, name, fork) ==
    [b \in BlockNumbers |-> <<c, IF b < fork THEN "a" ELSE name, b>>]

BranchesFrom(c, fork) == {Branch(c, "a", 0), Branch(c, "b", fork)}
ForkAt1 == [c \in ChainIds |-> BranchesFrom(c, 1)]
ForkAt2 == [c \in ChainIds |-> BranchesFrom(c, 2)]

HashesOf(forks, c) == UNION {Range(branch) : branch \in forks[c]}

Emitted(r, abi, hash, index) ==
    [chain_id |-> r.chain_id, address |-> r.address, abi |-> abi,
     block_number |-> hash[3], block_hash |-> hash, log_index |-> index]

\* On branch "a" every block swaps, the odd ones twice; the other branches mint
\* instead, and skip block 2.
PoolLogs(r, hashes) ==
    {Emitted(r, "Swap", h, 0) : h \in {g \in hashes : g[2] = "a"}}
    \cup {Emitted(r, "Swap", h, 1) : h \in {g \in hashes : g[2] = "a" /\ g[3] % 2 = 1}}
    \cup {Emitted(r, "Mint", h, 2) : h \in {g \in hashes : g[2] # "a" /\ g[3] # 2}}
TokenLogs(hashes) == {Emitted(Token, "Transfer", h, 3) : h \in hashes}

OnePoolLogs == PoolLogs(Pool, HashesOf(Forks, Main))
PoolAndTokenLogs == OnePoolLogs \cup TokenLogs(HashesOf(Forks, Main))
TwoPoolsLogs == OnePoolLogs \cup PoolLogs(SidePool, HashesOf(Forks, Side))
SharedPoolLogs == OnePoolLogs \cup PoolLogs(SharedPool, HashesOf(Forks, Side))

-----------------------------------------------------------------------------
(* Configurations *)
OneChain == <<Main>>
TwoChains == <<Main, Side>>

OnlyPool == {Pool}
PoolAndToken == {Pool, Token}
PoolTokenRetired == {Pool, Token, Retired}
PoolAndRetired == {Pool, Retired}
BothPools == {Pool, SidePool}
SharedPools == {Pool, SharedPool}

Quick == {0}
QuickOrSlow == {0, 60}
=============================================================================
