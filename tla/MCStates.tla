------------------------------ MODULE MCStates ------------------------------
(* Instances of States for TLC: two chains, with a token on each, and a     *)
(* state per holder.                                                        *)
EXTENDS States, TLC

CONSTANTS Main, Side    \* chain ids

Token == [chain_id |-> Main, address |-> "0xtoken", start_block_number |-> 1]
SideToken == [chain_id |-> Side, address |-> "0xtoken", start_block_number |-> 1]

Handles(r, table, key, op, block, index, f) ==
    [row |-> r, table |-> table, key |-> key, op |-> op, block_number |-> block,
     transaction_hash |-> <<"tx", block>>, log_index |-> index, fork |-> f]

Transfer(r, key, block, index, f) == Handles(r, "balances", key, "transfer", block, index, f)
Burn(r, key, block, index, f) == Handles(r, "balances", key, "burn", block, index, f)
Supply(r, block, index, f) == Handles(r, "supply", "total", "transfer", block, index, f)

\* alice and bob receive in two blocks, where alice stakes too; in the third she is burnt
\* and bob receives.  On the other chain alice receives and stakes once.
Stake(r, block) == Handles(r, "stakes", "alice", "transfer", block, 2, 0)
TokenEvents ==
    {Transfer(Token, "alice", b, 0, 0) : b \in 1..2} \cup {Burn(Token, "alice", 3, 0, 0)}
    \cup {Transfer(Token, "bob", b, 1, 0) : b \in 1..3}
    \cup {Stake(Token, b) : b \in 1..2}
\* A version that replaces Main's last block has bob's transfer as well.
BothTokens ==
    TokenEvents \cup {Transfer(SideToken, "alice", 1, 0, 0), Stake(SideToken, 1),
                      Transfer(Token, "bob", 3, 1, 1)}

\* Every transfer also counts in the supply over both chains.
SupplyEvents ==
    {Supply(Token, 1, 1, 0), Supply(Token, 2, 1, 0), Supply(SideToken, 1, 1, 0)}
BalanceAndSupply ==
    SupplyEvents \cup {Transfer(Token, "alice", 1, 0, 0), Burn(Token, "alice", 2, 0, 0)}

\* alice receives in every block.
AliceEvents == {Transfer(Token, "alice", b, 0, 0) : b \in 1..3}

MainToken == {Token}
Tokens == {Token, SideToken}
OnlyBalances == {"balances"}
BalancesAndStakes == {"balances", "stakes"}
BalancesAndSupply == {"balances", "supply"}
Kinds == [table \in StateTables |->
             CASE table = "balances" -> "ContractState"
               [] table = "stakes"   -> "ChainState"
               [] table = "supply"   -> "MultiChainState"]
=============================================================================
