---------------------------- MODULE AccountBook -----------------------------
(***************************************************************************)
(* What a validator promises about balances, without pools, leaders,       *)
(* gossip or locks: a slot gets at most one block, a block is settled at   *)
(* most once, and settling it changes all the balances it changes in one   *)
(* step.  Only senders of the block's transfers end up with less than      *)
(* before, and only recipients with more.                                  *)
(***************************************************************************)
EXTENDS Ledger

CONSTANT BookSlots

VARIABLES
    book,       \* balance of each account
    content,    \* the transactions of each slot's block
    stored,     \* slots that have a block
    settled     \* slots whose block was applied

bookVars == <<book, content, stored, settled>>

Senders(S) == {Tx[h].sender : h \in {t \in S : Transfer(t)}}

Recipients(S) == {Tx[h].recipient : h \in {t \in S : Transfer(t)}}

BookInit ==
    /\ book \in [Accounts -> Nat]
    /\ content \in [BookSlots -> SUBSET Txs]
    /\ stored \subseteq BookSlots
    /\ settled \subseteq stored

Store(s) ==
    /\ s \notin stored
    /\ stored' = stored \cup {s}
    /\ content' = [content EXCEPT ![s] = content'[s]] /\ content'[s] \subseteq Txs
    /\ UNCHANGED <<book, settled>>

Settle(s) ==
    /\ s \in stored \ settled
    /\ settled' = settled \cup {s}
    /\ book' \in [Accounts -> Nat]
    /\ \A a \in Accounts :
         /\ book'[a] < book[a] => a \in Senders(content[s])
         /\ book'[a] > book[a] => a \in Recipients(content[s])
    /\ UNCHANGED <<content, stored>>

BookNext == \E s \in BookSlots : Store(s) \/ Settle(s)

BookSpec == BookInit /\ [][BookNext]_bookVars
=============================================================================
