---------------------------- MODULE MCPruneClock ----------------------------
(* Instances of PruneClock for TLC: rounds more frequent than prunes, as with *)
(* the defaults (20 seconds and 30 days).                                     *)
EXTENDS PruneClock, TLC

TwoChains == <<"main", "side">>
Balances == <<"balances">>
=============================================================================
