------------------------------- MODULE Ledger -------------------------------
(***************************************************************************)
(* The rules by which the ledger (ledger/ledger.go) turns transactions     *)
(* into account balances and content versions.  An account that does not   *)
(* exist is one with balance zero: applyTx creates it so, and no check     *)
(* tells the two apart.  The nonce applyTx stores in the account is read   *)
(* by no check and is left out.                                            *)
(***************************************************************************)
EXTENDS Integers, FiniteSets

CONSTANTS
    Accounts,
    Txs,     \* transactions by their Hash()
    Tx,      \* the transaction of each hash
    NoTx     \* no hash, "" in the code

TxRecord ==
    [key : Nat,                           \* DedupHash(): what the sender signed
     type : {"transfer", "content"},
     sender : Accounts, recipient : Accounts,
     amount : Nat, nonce : Nat,
     parent : Txs \cup {NoTx}, root : Txs \cup {NoTx}]

ASSUME TxAssumption ==
    IsFiniteSet(Accounts) /\ Tx \in [Txs -> TxRecord] /\ NoTx \notin Txs

Transfer(h) == Tx[h].type = "transfer"

\* Broken variant: the recipient is credited before the sender is looked at.
ApplyTxUnchecked(state, h) ==
    LET paid == [state EXCEPT ![Tx[h].recipient] = @ + Tx[h].amount] IN
    IF state[Tx[h].sender] < Tx[h].amount THEN paid
    ELSE [paid EXCEPT ![Tx[h].sender] = @ - Tx[h].amount]

\* Transfer h on the balances of state; too small a balance leaves them as they are.
ApplyTx(state, h) ==
    IF state[Tx[h].sender] < Tx[h].amount THEN state
    ELSE LET debited == [state EXCEPT ![Tx[h].sender] = @ - Tx[h].amount]
         IN  [debited EXCEPT ![Tx[h].recipient] = @ + Tx[h].amount]

Outcome(ok) == IF ok THEN "success" ELSE "failed"

IsRoot(h) == Tx[h].parent = NoTx /\ Tx[h].root = NoTx

\* A new version is by the author of its parent, and its parent is the latest one.
\* related is the set of transactions the parent is looked up in.
ValidContent(h, related, latest) ==
    LET parent == Tx[h].parent
        root == Tx[h].root
    IN  \/ IsRoot(h)
        \/ /\ parent \in related
           /\ root \in Txs
           /\ ~ Transfer(parent)
           /\ Tx[parent].sender = Tx[h].sender
           /\ Tx[parent].recipient = Tx[h].recipient
           /\ latest[root] = parent

\* The version table after content h was accepted.
NewVersion(latest, h) ==
    [latest EXCEPT ![IF IsRoot(h) THEN h ELSE Tx[h].root] = h]
=============================================================================
