------------------------------ MODULE Mempool -------------------------------
(***************************************************************************)
(* The mempool and the deduplication cache (package mempool).  A           *)
(* transaction is kept under its hash, which covers the time the receiving *)
(* node stamped on it; it is recognized by its key, which covers only what *)
(* the sender signed.  Each operator with primed variables is one critical *)
(* section of the mempool lock, or one call of the cache, which has locks  *)
(* of its own; module TxFlow puts them together.                           *)
(*                                                                         *)
(* senderTotalAmount is zero where the map has no entry: the code deletes  *)
(* an entry that reaches zero, and skips the subtraction where none is.    *)
(* Entries of the cache outlive NonceWindow slots and are not evicted.     *)
(***************************************************************************)
EXTENDS Ledger, Sequences, Functions

CONSTANTS
    MaxTxs,        \* mp.max
    NonceWindow,
    Uint256        \* number of values of an amount; sums wrap around at it

ASSUME MempoolAssumption ==
    MaxTxs \in Nat /\ NonceWindow \in Nat /\ Uint256 \in Nat \ {0}

VARIABLES
    txs,                 \* hashes of the transactions in the pool
    txOrder,             \* the same in order of arrival
    dedupTxHashSet,      \* their keys
    senderTotalAmount,   \* what the transfers in the pool take from each sender
    netCurrentSlot,      \* highest slot a quorum was seen for
    dedup                \* keys in the deduplication cache

poolVars == <<txs, txOrder, dedupTxHashSet, senderTotalAmount>>

Key(h) == Tx[h].key

Keys(S) == {Key(h) : h \in S}

TxKeys == Keys(Txs)

PoolType ==
    /\ txs \subseteq Txs
    /\ txOrder \in Seq(Txs)
    /\ dedupTxHashSet \subseteq TxKeys
    /\ senderTotalAmount \in [Accounts -> 0 .. Uint256 - 1]
    /\ netCurrentSlot \in Nat
    /\ dedup \subseteq TxKeys

PoolEmpty ==
    /\ txs = {}
    /\ txOrder = <<>>
    /\ dedupTxHashSet = {}
    /\ senderTotalAmount = [a \in Accounts |-> 0]

NonceOk(h) ==
    /\ Tx[h].nonce >= IF netCurrentSlot > NonceWindow
                      THEN netCurrentSlot - NonceWindow ELSE 1
    /\ Tx[h].nonce <= netCurrentSlot

\* What AddTx checks before it takes the lock.
CheapValid(h) ==
    /\ Transfer(h) => Tx[h].amount # 0
    /\ Cardinality(txs) < MaxTxs
    /\ NonceOk(h)

\* The balance not promised to transfers in the pool covers h.
Covered(h, accounts) ==
    \/ Tx[h].sender = Tx[h].recipient
    \/ (accounts[Tx[h].sender] - senderTotalAmount[Tx[h].sender]) % Uint256 >= Tx[h].amount

\* Broken variant: the keys of the pool are not looked at.
ValidUnlessSeen(h, accounts, stored, latest) ==
    /\ Key(h) \notin dedup
    /\ IF Transfer(h) THEN Covered(h, accounts) ELSE ValidContent(h, stored, latest)

\* What AddTx checks under the lock.
Valid(h, accounts, stored, latest) ==
    /\ Key(h) \notin dedupTxHashSet
    /\ Key(h) \notin dedup
    /\ IF Transfer(h) THEN Covered(h, accounts) ELSE ValidContent(h, stored, latest)

Insert(h) ==
    /\ txs' = txs \cup {h}
    /\ txOrder' = Append(txOrder, h)
    /\ dedupTxHashSet' = dedupTxHashSet \cup {Key(h)}
    /\ senderTotalAmount' =
         IF Transfer(h)
         THEN [senderTotalAmount EXCEPT ![Tx[h].sender] = (@ + Tx[h].amount) % Uint256]
         ELSE senderTotalAmount

\* A transaction leaves the pool: its amount is taken off an existing total.
Released(total, h) ==
    IF total[Tx[h].sender] = 0 THEN total
    ELSE [total EXCEPT ![Tx[h].sender] = (@ - Tx[h].amount) % Uint256]

\* The totals after the transactions of sequence s left, one after the other.
ReleasedAll(total, s) ==
    LET after[i \in 0 .. Len(s)] ==
            IF i = 0 THEN total ELSE Released(after[i - 1], s[i])
    IN  after[Len(s)]

\* The elements of sequence s that are in T, in their order.
Only(s, T) ==
    LET kept[i \in 0 .. Len(s)] ==
            IF i = 0 THEN <<>>
            ELSE IF s[i] \in T THEN Append(kept[i - 1], s[i]) ELSE kept[i - 1]
    IN  kept[Len(s)]

\* The transactions PullBatch takes: those of the first n hashes that are in the pool.
Selected(n) ==
    LET size == IF n < Len(txOrder) THEN n ELSE Len(txOrder)
    IN  Only(SubSeq(txOrder, 1, size), txs)

\* Broken variant: the total of the sender is not lowered.
PullKeepsTotal(n) ==
    LET out == Range(Selected(n)) IN
    /\ txOrder' = SubSeq(txOrder, n + 1, Len(txOrder))
    /\ txs' = txs \ out
    /\ dedupTxHashSet' = dedupTxHashSet \ Keys(out)
    /\ UNCHANGED senderTotalAmount

\* The locked part of PullBatch.
Pull(n) ==
    LET out == Range(Selected(n)) IN
    /\ txOrder' = SubSeq(txOrder, n + 1, Len(txOrder))
    /\ txs' = txs \ out
    /\ dedupTxHashSet' = dedupTxHashSet \ Keys(out)
    /\ senderTotalAmount' = ReleasedAll(senderTotalAmount, Selected(n))

\* The orders in which the elements of a finite set can be ranged over.
Orders(S) == Injection(1 .. Cardinality(S), S)

\* BlockCleanup: the transactions of a block, by hash, leave the pool.  The hashes
\* are the keys of a map, which is ranged over in any order.
Cleanup(hashes) ==
    LET out == txs \cap hashes IN
    /\ txOrder' = Only(txOrder, Txs \ hashes)
    /\ txs' = txs \ out
    /\ dedupTxHashSet' = dedupTxHashSet \ Keys(out)
    /\ \E s \in Orders(out) : senderTotalAmount' = ReleasedAll(senderTotalAmount, s)

SetCurrentSlot(s) == netCurrentSlot' = IF s > netCurrentSlot THEN s ELSE netCurrentSlot

\* VerifyBlockTransactions, for the transactions of a received block.
BlockTxsOk(hashes) ==
    \A h \in hashes : NonceOk(h) /\ Key(h) \notin dedup

\* Broken variant: Hash() in place of DedupHash().
DedupAddHash(hashes) == dedup' = dedup \cup hashes

DedupAdd(hashes) == dedup' = dedup \cup Keys(hashes)

-----------------------------------------------------------------------------
\* Properties

\* The four collections of the pool describe one set of transactions: the order
\* lists each of them once, and no two of them are copies of one signed
\* transaction.  PullBatch, BlockCleanup and AddTx update them separately.
PoolConsistent ==
    /\ Range(txOrder) = txs
    /\ Len(txOrder) = Cardinality(txs)
    /\ dedupTxHashSet = Keys(txs)
    /\ Cardinality(dedupTxHashSet) = Cardinality(txs)

TransfersOf(a) == {h \in txs : Transfer(h) /\ Tx[h].sender = a}

Amounts == [h \in Txs |-> Tx[h].amount]

Promised(a) == SumFunctionOnSet(Amounts, TransfersOf(a))

\* senderTotalAmount is what the transfers in the pool take from each account,
\* no matter in which order they came and whether a batch or a block took others.
SenderTotalExact ==
    \A a \in Accounts :
        senderTotalAmount[a] = Promised(a)
=============================================================================
