------------------------------ MODULE Cluster ------------------------------
(***************************************************************************)
(* Several nodes that propose, vote, finalize and synchronize              *)
(* (p2p/pubsub.go, p2p/vote.go, p2p/block.go, p2p/block_ordering.go,       *)
(* p2p/tracker.go, p2p/discovery.go).                                      *)
(*                                                                         *)
(* A handler is one step: NodeFinality looks inside the handlers of one    *)
(* node.  Here the messages are what another node really sent.  A          *)
(* published message stays in its set: a node may take it at any later     *)
(* time, in any order, or never.                                           *)
(*                                                                         *)
(* A node that is behind asks for blocks; a peer streams what it stores up *)
(* to its latest finalized slot, in windows of BatchSize slots; one stream *)
(* of a request is read at a time.  Blocks whose proof of history fails    *)
(* belong to NodeFinality, the PoH clock to LeaderClock: here a ready      *)
(* leader may propose any own slot it stores nothing for.                  *)
(***************************************************************************)
EXTENDS Integers, FiniteSets

CONSTANTS
    Nodes,        \* the validators
    MaxSlot,      \* slots are 1 .. MaxSlot
    LeaderOf,     \* LeaderOf[s]: leader of slot s
    Proposals,    \* contents a leader may give its block
    BatchSize,    \* SyncBlocksBatchSize
    Total,        \* number of entries of the leader schedule
    Crashing,     \* the nodes that may crash
    MaxCrashes    \* bound on the number of crashes

Slots == 1 .. MaxSlot

NoBlock == "none"
Empty == "empty"  \* the filler of a slot its leader has nothing for

ASSUME NodeAssumption == IsFiniteSet(Nodes)
ASSUME ScheduleAssumption == MaxSlot \in Nat /\ LeaderOf \in [Slots -> Nodes]
ASSUME ProposalAssumption == NoBlock \notin Proposals /\ Empty \notin Proposals
ASSUME NumberAssumption == BatchSize \in Nat \ {0} /\ Total \in Nat /\ MaxCrashes \in Nat

VARIABLES
    \* in the databases
    blocks,      \* blocks[n][s]: content of the block n stores for s, or NoBlock
    how,         \* how[n][s]: what finalized s at n: "vote", "sync" or "none"
    dbLatest,    \* persisted latest finalized slot
    \* in memory
    latest,      \* blockStore.latestFinalized
    votes,       \* votes[n][s]: the voters n counted for s
    world,       \* worldLatestSlot
    ready,       \* core services run
    requested,   \* first slot of the block sync request, 0 if there is none
    next,        \* nextExpectedSlot
    queue,       \* blockOrderingQueue
    stream,      \* the stream n reads: peer, its next slot, end of its window
    answered,    \* peers whose answer to the request of n has come
    \* published
    proposed,    \* blocks on the block topic
    ballots,     \* votes on the vote topic
    fillers,     \* slots whose filler is on the empty-block topic
    crashes

durable == <<blocks, how, dbLatest>>
syncing == <<requested, next, queue, stream, answered>>
published == <<proposed, ballots, fillers>>
vars == <<durable, latest, votes, world, ready, syncing, published, crashes>>

Contents == Proposals \cup {Empty, NoBlock}

\* NewCollector: f = n / 3, threshold = max(2 * f, 1).
Threshold == LET f == Total \div 3 IN IF 2 * f > 1 THEN 2 * f ELSE 1

\* A node reads no stream: it is its own peer.
NoStream(n) == [peer |-> n, slot |-> 1, to |-> 0]

TypeOK ==
    /\ blocks \in [Nodes -> [Slots -> Contents]]
    /\ how \in [Nodes -> [Slots -> {"none", "vote", "sync"}]]
    /\ dbLatest \in [Nodes -> 0 .. MaxSlot]
    /\ latest \in [Nodes -> 0 .. MaxSlot]
    /\ votes \in [Nodes -> [Slots -> SUBSET Nodes]]
    /\ world \in [Nodes -> 0 .. MaxSlot]
    /\ ready \in [Nodes -> BOOLEAN]
    /\ requested \in [Nodes -> 0 .. MaxSlot]
    /\ next \in [Nodes -> 1 .. MaxSlot + 1]
    /\ queue \in [Nodes -> [Slots -> Contents]]
    /\ stream \in [Nodes -> [peer : Nodes, slot : 1 .. MaxSlot + 1, to : 0 .. MaxSlot]]
    /\ answered \in [Nodes -> SUBSET Nodes]
    /\ proposed \subseteq Slots \X Proposals
    /\ ballots \subseteq Nodes \X Slots
    /\ fillers \subseteq Slots
    /\ crashes \in 0 .. MaxCrashes

\* Every node has started on its genesis block.  One that joins later is one that
\* crashes before it has done anything.
Init ==
    /\ blocks = [n \in Nodes |-> [s \in Slots |-> NoBlock]]
    /\ how = [n \in Nodes |-> [s \in Slots |-> "none"]]
    /\ dbLatest = [n \in Nodes |-> 0]
    /\ latest = [n \in Nodes |-> 0]
    /\ votes = [n \in Nodes |-> [s \in Slots |-> {}]]
    /\ world = [n \in Nodes |-> 0]
    /\ ready = [n \in Nodes |-> TRUE]
    /\ requested = [n \in Nodes |-> 0]
    /\ next = [n \in Nodes |-> 1]
    /\ queue = [n \in Nodes |-> [s \in Slots |-> NoBlock]]
    /\ stream = [n \in Nodes |-> NoStream(n)]
    /\ answered = [n \in Nodes |-> {}]
    /\ proposed = {}
    /\ ballots = {}
    /\ fillers = {}
    /\ crashes = 0

-----------------------------------------------------------------------------
\* Proposing and voting

\* Broken variant: a stored block is overwritten.
AddBlockOverwriting(n, s, c) == blocks' = [blocks EXCEPT ![n][s] = c]

AddBlockPending(n, s, c) ==
    /\ blocks[n][s] = NoBlock
    /\ blocks' = [blocks EXCEPT ![n][s] = c]

\* ProcessVote: the vote is counted, for the slot alone; with enough votes the
\* block stored for the slot, whichever it is, is finalized unless it is already.
ProcessVote(n, v, s) ==
    /\ v \notin votes[n][s]
    /\ votes' = [votes EXCEPT ![n][s] = @ \cup {v}]
    /\ IF /\ Cardinality(votes[n][s] \cup {v}) >= Threshold
          /\ blocks'[n][s] # NoBlock
          /\ how[n][s] = "none"
       THEN /\ how' = [how EXCEPT ![n][s] = "vote"]
            /\ latest' = [latest EXCEPT ![n] = s]
            /\ dbLatest' = [dbLatest EXCEPT ![n] = IF s > latest[n] THEN s ELSE @]
       ELSE UNCHANGED <<how, latest, dbLatest>>

\* The own vote for a block just stored; a lost vote is one nobody takes.
OwnVote(n, s) ==
    /\ ProcessVote(n, n, s)
    /\ ballots' = ballots \cup {<<n, s>>}

\* Broken variant: the block is published although it could not be stored.
BroadcastUnstored(n, s, c) ==
    /\ ready[n]
    /\ LeaderOf[s] = n
    /\ blocks[n][s] = NoBlock
    /\ proposed' = proposed \cup {<<s, c>>}
    /\ \/ AddBlockPending(n, s, c) /\ OwnVote(n, s)
       \/ UNCHANGED <<blocks, votes, how, latest, dbLatest, ballots>>
    /\ UNCHANGED <<world, ready, syncing, fillers, crashes>>

\* The own block is stored, then published; only a published block is voted for.
BroadcastBlock(n, s, c) ==
    /\ ready[n]
    /\ LeaderOf[s] = n
    /\ AddBlockPending(n, s, c)
    /\ \/ proposed' = proposed \cup {<<s, c>>} /\ OwnVote(n, s)
       \/ UNCHANGED <<proposed, votes, how, latest, dbLatest, ballots>>
    /\ UNCHANGED <<world, ready, syncing, fillers, crashes>>

\* Broken variant: a block is voted for although it could not be stored.
VoteUnstored(n, s, c) ==
    /\ ready[n]
    /\ LeaderOf[s] # n
    /\ <<s, c>> \in proposed
    /\ AddBlockPending(n, s, c) \/ UNCHANGED blocks
    /\ OwnVote(n, s)
    /\ UNCHANGED <<world, ready, syncing, proposed, fillers, crashes>>

\* A gossiped block of another leader is stored and voted for.
OnBlockReceived(n, s, c) ==
    /\ ready[n]
    /\ LeaderOf[s] # n
    /\ <<s, c>> \in proposed
    /\ AddBlockPending(n, s, c)
    /\ OwnVote(n, s)
    /\ UNCHANGED <<world, ready, syncing, proposed, fillers, crashes>>

OnVoteReceived(n, v, s) ==
    /\ ready[n]
    /\ v # n
    /\ <<v, s>> \in ballots
    /\ UNCHANGED blocks
    /\ ProcessVote(n, v, s)
    /\ UNCHANGED <<world, ready, syncing, published, crashes>>

-----------------------------------------------------------------------------
\* Synchronizing

\* A peer answers with its latest finalized slot.  Only a node that is starting
\* or has asked for blocks looks at the result.
OnLatestSlotReceived(n, p) ==
    /\ ~ ready[n] \/ requested[n] # 0
    /\ world[n] < latest[p]
    /\ world' = [world EXCEPT ![n] = latest[p]]
    /\ UNCHANGED <<durable, latest, votes, ready, syncing, published, crashes>>

\* startAfterSyncWithPeers, for a node that is not behind the world it knows.
StartFromLocal(n) ==
    /\ ~ ready[n]
    /\ requested[n] = 0
    /\ latest[n] >= world[n]
    /\ ready' = [ready EXCEPT ![n] = TRUE]
    /\ UNCHANGED <<durable, latest, votes, world, syncing, published, crashes>>

\* Broken variant: the request starts behind the world's latest slot.
RequestAfterWorld(n) ==
    /\ ~ ready[n]
    /\ requested[n] = 0
    /\ latest[n] < world[n]
    /\ LeaderOf[world[n]] # n
    /\ requested' = [requested EXCEPT ![n] = world[n] + 1]
    /\ UNCHANGED <<durable, latest, votes, world, ready, next, queue, stream, answered,
                   published, crashes>>

\* startAfterSyncWithPeers, for a node that is behind: isSyncWindowAligned waits
\* for a world slot of another leader; the request is sent once.
RequestBlockSync(n) ==
    /\ ~ ready[n]
    /\ requested[n] = 0
    /\ latest[n] < world[n]
    /\ LeaderOf[world[n]] # n
    /\ requested' = [requested EXCEPT ![n] = latest[n] + 1]
    /\ UNCHANGED <<durable, latest, votes, world, ready, next, queue, stream, answered,
                   published, crashes>>

\* The end of the window that starts at slot k.
WindowEnd(p, k) ==
    IF k + BatchSize - 1 > latest[p] THEN latest[p] ELSE k + BatchSize - 1

\* sendBlocksOverStream opens a stream; ActivatePeer refuses it while another is
\* read.  A peer that has finalized nothing from the first slot on sends nothing.
SendBlocksOverStream(n, p) ==
    /\ p # n
    /\ requested[n] # 0
    /\ p \notin answered[n]
    /\ answered' = [answered EXCEPT ![n] = @ \cup {p}]
    /\ IF stream[n].peer = n /\ requested[n] <= latest[p]
       THEN stream' = [stream EXCEPT ![n] = [peer |-> p, slot |-> requested[n],
                                             to |-> WindowEnd(p, requested[n])]]
       ELSE UNCHANGED stream
    /\ UNCHANGED <<durable, latest, votes, world, ready, requested, next, queue,
                   published, crashes>>

\* Slot k continues the run of processConsecutiveBlocks over the queue q.
InRun(n, q, k) == k <= world[n] /\ (q[k] # NoBlock \/ LeaderOf[k] = n)

\* The run from next[n] stops at slot m.
RunStops(n, q, m) ==
    /\ \A k \in next[n] .. m - 1 : InRun(n, q, k)
    /\ m \in Slots => ~ InRun(n, q, m)

\* Broken variant: the filler of an own slot is published and not stored.
StoreQueuedOnly(n, q, fresh) ==
    blocks' = [blocks EXCEPT ![n] = [s \in Slots |-> IF s \in fresh THEN q[s] ELSE @[s]]]

\* AddBlockPending on the slots of fresh: what is queued, or a filler.
StoreRun(n, q, fresh) ==
    blocks' = [blocks EXCEPT ![n] =
                  [s \in Slots |-> IF s \notin fresh THEN @[s]
                                   ELSE IF q[s] = NoBlock THEN Empty ELSE q[s]]]

\* FinalizeBlock on the slots of fresh, in ascending order.
FinalizeRun(n, fresh) ==
    \/ fresh = {} /\ UNCHANGED <<how, latest, dbLatest>>
    \/ \E t \in fresh :
          /\ \A k \in fresh : k <= t
          /\ how' = [how EXCEPT ![n] = [s \in Slots |-> IF s \in fresh THEN "sync" ELSE @[s]]]
          /\ latest' = [latest EXCEPT ![n] = t]
          /\ dbLatest' = [dbLatest EXCEPT ![n] =
                             IF t > latest[n] \/ fresh # {t} THEN t ELSE @]

\* AddBlockToOrderingQueue: the block is queued and the run from next[n] on is
\* processed.  An own slot that is not queued gets a filler, which is published
\* whether or not AddBlockPending took it.  A node that reached the world's
\* latest slot starts its services.
AddBlockToOrderingQueue(n, k, c) ==
    \E m \in next[n] .. MaxSlot + 1 :
        LET q == [queue[n] EXCEPT ![k] = c]
            run == next[n] .. m - 1
            fresh == {j \in run : blocks[n][j] = NoBlock}
        IN /\ RunStops(n, q, m)
           /\ next' = [next EXCEPT ![n] = m]
           /\ queue' = [queue EXCEPT ![n] = [j \in Slots |-> IF j \in run THEN NoBlock ELSE q[j]]]
           /\ StoreRun(n, q, fresh)
           /\ FinalizeRun(n, fresh)
           /\ fillers' = fillers \cup {j \in run : q[j] = NoBlock}
           /\ ready' = [ready EXCEPT ![n] = @ \/ (run # {} /\ world[n] < m)]

\* The next slot of the window: a stored block is sent, and dropped at the other
\* end if that has a block for the slot.
StreamBlock(n) ==
    LET p == stream[n].peer
        k == stream[n].slot
    IN /\ p # n
       /\ k <= stream[n].to
       /\ stream' = [stream EXCEPT ![n].slot = k + 1]
       /\ IF blocks[p][k] # NoBlock /\ blocks[n][k] = NoBlock
          THEN AddBlockToOrderingQueue(n, k, blocks[p][k])
          ELSE UNCHANGED <<durable, latest, ready, next, queue, fillers>>
       /\ UNCHANGED <<votes, world, requested, answered, proposed, ballots, crashes>>

\* The next window, up to the latest finalized slot the peer has by then.
NextWindow(n) ==
    LET p == stream[n].peer
        k == stream[n].slot
    IN /\ p # n
       /\ k > stream[n].to
       /\ k <= latest[p]
       /\ stream' = [stream EXCEPT ![n].to = WindowEnd(p, k)]
       /\ UNCHANGED <<durable, latest, votes, world, ready, requested, next, queue,
                      answered, published, crashes>>

\* The stream ends, or breaks off: CloseAllPeers, and the tracker is deleted.
StreamEnd(n) ==
    /\ stream[n].peer # n
    /\ stream' = [stream EXCEPT ![n] = NoStream(n)]
    /\ UNCHANGED <<durable, latest, votes, world, ready, requested, next, queue,
                   answered, published, crashes>>

\* A filler is stored unverified, ready or not; nothing votes for it.
OnEmptyBlockReceived(n, s) ==
    /\ s \in fillers
    /\ LeaderOf[s] # n
    /\ AddBlockPending(n, s, Empty)
    /\ UNCHANGED <<how, dbLatest, latest, votes, world, ready, syncing, published,
                   crashes>>

\* The process stops and starts again on its database; its streams break off.
Crash(n) ==
    /\ n \in Crashing
    /\ crashes < MaxCrashes
    /\ crashes' = crashes + 1
    /\ latest' = [latest EXCEPT ![n] = dbLatest[n]]
    /\ votes' = [votes EXCEPT ![n] = [s \in Slots |-> {}]]
    /\ world' = [world EXCEPT ![n] = 0]
    /\ ready' = [ready EXCEPT ![n] = FALSE]
    /\ requested' = [requested EXCEPT ![n] = 0]
    /\ next' = [next EXCEPT ![n] = dbLatest[n] + 1]
    /\ queue' = [queue EXCEPT ![n] = [s \in Slots |-> NoBlock]]
    /\ stream' = [m \in Nodes |-> IF n \in {m, stream[m].peer} THEN NoStream(m) ELSE stream[m]]
    /\ answered' = [answered EXCEPT ![n] = {}]
    /\ UNCHANGED <<durable, published>>

-----------------------------------------------------------------------------

NodeNext(n) ==
    \/ \E s \in Slots, c \in Proposals : BroadcastBlock(n, s, c) \/ OnBlockReceived(n, s, c)
    \/ \E v \in Nodes, s \in Slots : OnVoteReceived(n, v, s)
    \/ \E p \in Nodes : OnLatestSlotReceived(n, p)
    \/ StartFromLocal(n)
    \/ RequestBlockSync(n)
    \/ \E p \in Nodes : SendBlocksOverStream(n, p)
    \/ StreamBlock(n)
    \/ NextWindow(n)
    \/ StreamEnd(n)
    \/ \E s \in Slots : OnEmptyBlockReceived(n, s)
    \/ Crash(n)

Next == \E n \in Nodes : NodeNext(n)

Spec == Init /\ [][Next]_vars

-----------------------------------------------------------------------------
\* Properties

\* Whatever is lost, reordered, streamed or restarted, no two nodes hold
\* different proposals of one slot: a leader stores its block before it
\* publishes it and never proposes again for a slot it stores a block for.
OneProposalPerSlot ==
    \A s \in Slots : \A n, m \in Nodes :
        {blocks[n][s], blocks[m][s]} \subseteq Proposals => blocks[n][s] = blocks[m][s]

Holders(n, s) == {m \in Nodes : blocks[m][s] = blocks[n][s]}

\* A block finalized by votes is held by as many nodes as the threshold asks
\* for, and will be after any restart, unless its leader also published a
\* filler for the slot: a vote follows the stored block.
QuorumHoldsBlock ==
    \A n \in Nodes, s \in Slots \ fillers :
        how[n][s] = "vote" => Cardinality(Holders(n, s)) >= Threshold

\* The ordering queue leaves no hole: from the first slot asked for to the slot
\* it waits for, every slot has a block.
NoHoles ==
    \A n \in Nodes : requested[n] # 0 =>
        \A s \in requested[n] .. next[n] - 1 : blocks[n][s] # NoBlock

\* What the leader of s has proposed, and what n has finalized for s
ProposalOf(s) == IF blocks[LeaderOf[s]][s] \in Proposals THEN blocks[LeaderOf[s]][s] ELSE NoBlock
DecisionOf(n, s) == IF how[n][s] = "none" THEN NoBlock ELSE blocks[n][s]

Agreement == INSTANCE SlotAgreement WITH
    proposal <- [s \in Slots |-> ProposalOf(s)],
    decided <- [n \in Nodes |-> [s \in Slots |-> DecisionOf(n, s)]]

\* However proposals, votes, streams, fillers and restarts interleave, a node
\* finalizes a slot once and for all (ProcessVote and the ordering queue check
\* different things first), on the one proposal of its leader or on the filler.
ReachesAgreement == Agreement!ASpec
=============================================================================
