----------------------------- MODULE TxFlowBook -----------------------------
(***************************************************************************)
(* The node of TxFlow as an implementation of the account book.            *)
(***************************************************************************)
EXTENDS TxFlow

Book == INSTANCE AccountBook WITH
    BookSlots <- Slots,
    book <- accounts,
    content <- [s \in Slots |-> Range(blocks[s].txs)],
    stored <- {s \in Slots : blocks[s].stored},
    settled <- applied

\* The detailed node implements the account book: whatever callers of AddTx, the
\* batch loop, received blocks, failed writes and crashes do in between, no slot
\* changes its block, none is applied twice, and balances change only when
\* bStore.FinalizeBlock writes a whole block.
KeepsAccountBook == Book!BookSpec
=============================================================================
