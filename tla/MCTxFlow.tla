------------------------------ MODULE MCTxFlow -------------------------------
(***************************************************************************)
(* TxFlow for TLC.  p and pCopy are one signed transfer, stamped by two    *)
(* nodes; q is a transfer that the sender can pay only if p is not         *)
(* applied; c is a content with two competing versions d and e.            *)
(***************************************************************************)
EXTENDS TxFlowBook

CONSTANTS alice, bob, p, pCopy, q, c, d, e

MCAccounts == {alice, bob}
MCTxs == {p, pCopy, q, c, d, e}

Pay(key, amount) ==
    [key |-> key, type |-> "transfer", sender |-> alice, recipient |-> bob,
     amount |-> amount, nonce |-> 1, parent |-> NoTx, root |-> NoTx]

Content(key, parent, root) ==
    [key |-> key, type |-> "content", sender |-> bob, recipient |-> bob,
     amount |-> 0, nonce |-> 1, parent |-> parent, root |-> root]

MCTx ==
    [h \in MCTxs |-> CASE h \in {p, pCopy} -> Pay(1, 2)
                       [] h = q -> Pay(2, 2)
                       [] h = c -> Content(3, NoTx, NoTx)
                       [] h = d -> Content(4, c, c)
                       [] h = e -> Content(5, c, c)]

MCPeerBlocks == {<<pCopy>>, <<d, e>>}
MCFirstContents == <<c>>
MCSubmitted == {p, q}
MCInitialBalance == [a \in MCAccounts |-> IF a = alice THEN 3 ELSE 0]
=============================================================================
