----------------------------- MODULE ChainReorg -----------------------------
(***************************************************************************)
(* The block arithmetic every ingester pass is built from: the range one   *)
(* batch of a contract address covers (Filter::maybe_new), the window in   *)
(* which already ingested blocks are fetched again to detect a chain       *)
(* re-organization (MinConfirmationCount), and the choice among the        *)
(* re-organizations the handlers find recorded (ReorgedBlocks).            *)
(***************************************************************************)
EXTENDS Integers

CONSTANTS
    MinConfirmationCount,   \* Config::min_confirmation_count, a u8
    BlocksPerBatch          \* Config::blocks_per_batch, a u64

ASSUME MinConfirmationCountAssumption == MinConfirmationCount \in 0..255
ASSUME BlocksPerBatchAssumption == BlocksPerBatch \in Nat

Larger(a, b) == IF a >= b THEN a ELSE b
Smaller(a, b) == IF a <= b THEN a ELSE b

-----------------------------------------------------------------------------
(* MinConfirmationCount *)

DeductFrom_Unbounded(block_number, start_block_number) == block_number - MinConfirmationCount

\* The block number is cast to i64 first, so the subtraction may be negative.
DeductFrom(block_number, start_block_number) ==
    Larger(start_block_number, Larger(0, block_number - MinConfirmationCount))

\* A chain no longer than the confirmation count is never in the window.
IsInConfirmationWindow(next_block_number, current_block_number) ==
    /\ MinConfirmationCount < current_block_number
    /\ next_block_number >= current_block_number - MinConfirmationCount

-----------------------------------------------------------------------------
(* Filter::maybe_new: the inclusive block range of an eth_getLogs filter *)

MainToBlock_Uncapped(next, current) == next + BlocksPerBatch


\* Execution::Main
MainToBlock(next, current) == Smaller(next + BlocksPerBatch, current)

\* Execution::Confirmation: the upper end is not capped by the current block.
ConfirmationFromBlock(next, start) == DeductFrom(next, start)
ConfirmationToBlock(next) == next + BlocksPerBatch

-----------------------------------------------------------------------------
(* ReorgedBlocks::only_earliest_per_chain: one row per chain, of least block *)
(* number.  The rows come from an unordered SELECT, so which one of several  *)
(* with that number survives is not determined: the operator gives the set   *)
(* of the selections the fold can return.                                    *)
OnlyEarliestPerChain(reorged_blocks) ==
    LET ChainsOf(rows) == {r.chain_id : r \in rows}
        IsEarliest(r) == \A s \in reorged_blocks :
                            s.chain_id = r.chain_id => r.block_number <= s.block_number
    IN  {rows \in SUBSET {r \in reorged_blocks : IsEarliest(r)} :
            /\ ChainsOf(rows) = ChainsOf(reorged_blocks)
            /\ \A r, s \in rows : r.chain_id = s.chain_id => r = s}
=============================================================================
