---------------------------- MODULE NodeFinality ----------------------------
(***************************************************************************)
(* How one node takes blocks to finality (p2p/pubsub.go, p2p/vote.go,      *)
(* p2p/block.go, p2p/block_ordering.go, p2p/empty_block.go), with its vote *)
(* collector (consensus/collector.go) and the finalizing calls into the    *)
(* ledger and the block store.                                             *)
(*                                                                         *)
(* Five goroutines reach the store:                                        *)
(*   block   HandleBlockTopic: stores a gossiped block and votes for it;   *)
(*   vote    HandleVoteTopic: counts a gossiped vote;                      *)
(*   leader  BroadcastBlockWithProcessing: stores and publishes own block; *)
(*   sync    handleBlockSyncRequestStream: feeds the ordering queue;       *)
(*   empty   HandleEmptyBlockTopic: stores filler blocks as they come.     *)
(* The first three finalize through applyDataToBlock, under applyBlockMu   *)
(* and after IsApplied; sync finalizes directly.                           *)
(*                                                                         *)
(* AddBlockPending and FinalizeBlock are single steps here: module         *)
(* BlockStore shows what their own steps preserve.  A block is known by    *)
(* its content and the InvalidPoH flag it was stored with.  Slot 0 holds   *)
(* the genesis block and is left out.                                      *)
(***************************************************************************)
EXTENDS Integers, FiniteSets, Sequences

CONSTANTS
    MaxSlot,       \* slots are 1 .. MaxSlot
    Contents,      \* contents a block of a slot may have
    BadPoh,        \* the contents that VerifyPoH rejects
    Empty,         \* content of the filler block of an own slot
    Voters,        \* public keys that vote, this node's included
    Self,          \* this node's public key
    Total,         \* number of entries of the leader schedule
    OwnSlots,      \* the slots this node leads
    FillerSlots,   \* the slots of other leaders that publish a filler block
    Listener,      \* TRUE for a node in listen mode
    KeepVotes,     \* slots whose votes survive CleanupOldVotes
    WritesFail,    \* TRUE if a database write may fail
    MaxCrashes     \* bound on the number of crashes

ASSUME SlotAssumption == MaxSlot \in Nat
ASSUME ContentAssumption == BadPoh \subseteq Contents /\ Empty \in Contents
ASSUME VoterAssumption == IsFiniteSet(Voters) /\ Self \in Voters
ASSUME TotalAssumption == Total \in Nat
ASSUME OwnSlotsAssumption == OwnSlots \cup FillerSlots \subseteq 1 .. MaxSlot
ASSUME ModeAssumption == Listener \in BOOLEAN /\ WritesFail \in BOOLEAN
ASSUME BoundAssumption == KeepVotes \in Nat /\ MaxCrashes \in Nat

VARIABLES
    \* in the database
    blocks,            \* blocks[s]: content and InvalidPoH of the stored block, or NoBlock
    finalized,         \* slots with a finalized marker (IsApplied)
    dbLatestFinalized, \* persisted latest finalized slot, 0 if not written
    applies,           \* applies[p][s]: times path p applied slot s to the accounts
    \* in memory
    latestFinalized,   \* blockStore.latestFinalized
    votes,             \* collector.votes: slot -> voters
    worldLatestSlot,   \* highest finalized slot a peer reported
    requested,         \* a block sync was requested since the process started
    nextExpectedSlot,  \* slot the ordering queue waits for
    queue,             \* blockOrderingQueue: slot -> content, or NoContent
    ready,             \* core services run: topics joined, PoH and validator started
    pc,                \* where each goroutine is
    arg,               \* the slot it works on
    todo,              \* processedBlocks that sync has still to process
    last,              \* last slot of the batch sync is processing
    \* observers
    sent,              \* sent[s]: contents of slot s this node published a vote for
    voted,             \* voted[s]: voters whose vote for s was ever counted
    crashes            \* crashes so far

durable == <<blocks, finalized, dbLatestFinalized, applies>>
syncState == <<requested, nextExpectedSlot, queue, todo, last>>
vars == <<durable, latestFinalized, votes, worldLatestSlot, syncState, ready, pc, arg,
          sent, voted, crashes>>

Slots == 1 .. MaxSlot
Goroutines == {"block", "vote", "leader", "sync"}
Paths == {"vote", "sync"}

\* The goroutines that finalize through applyDataToBlock.
Appliers == {"block", "vote", "leader"}

NoContent == "none"

ASSUME NoContentAssumption == NoContent \notin Contents

NoBlock == [content |-> NoContent, invalid |-> FALSE]
Block(c, bad) == [content |-> c, invalid |-> bad]

\* A block of the run that processConsecutiveBlocks has taken from the queue.
QueuedBlock == [slot : Slots, content : Contents]

\* NewCollector: f = n / 3, threshold = max(2 * f, 1).
Threshold == LET f == Total \div 3 IN IF 2 * f > 1 THEN 2 * f ELSE 1

TypeOK ==
    /\ blocks \in [Slots -> [content : Contents, invalid : BOOLEAN] \cup {NoBlock}]
    /\ finalized \subseteq Slots
    /\ dbLatestFinalized \in 0 .. MaxSlot
    /\ applies \in [Paths -> [Slots -> Nat]]
    /\ latestFinalized \in 0 .. MaxSlot
    /\ votes \in [Slots -> SUBSET Voters]
    /\ worldLatestSlot \in 0 .. MaxSlot
    /\ requested \in BOOLEAN
    /\ nextExpectedSlot \in 1 .. MaxSlot + 1
    /\ queue \in [Slots -> Contents \cup {NoContent}]
    /\ ready \in BOOLEAN
    /\ pc \in [Goroutines -> {"idle", "vote", "check", "apply", "finalize", "add", "done"}]
    /\ arg \in [Goroutines -> 0 .. MaxSlot]
    /\ todo \in Seq(QueuedBlock)
    /\ last \in 0 .. MaxSlot
    /\ sent \in [Slots -> SUBSET Contents]
    /\ voted \in [Slots -> SUBSET Voters]
    /\ crashes \in 0 .. MaxCrashes

\* Broken variant: SetNextExpectedSlot gets the latest finalized slot itself.
StartedAtLatest(latest) ==
    /\ latestFinalized' = latest
    /\ votes' = [s \in Slots |-> {}]
    /\ worldLatestSlot' = 0
    /\ requested' = FALSE
    /\ nextExpectedSlot' = latest
    /\ queue' = [s \in Slots |-> NoContent]
    /\ ready' = FALSE
    /\ pc' = [g \in Goroutines |-> "idle"]
    /\ arg' = [g \in Goroutines |-> 0]
    /\ todo' = <<>>
    /\ last' = 0

\* The state of a process that has just started on the current database.
Started(latest) ==
    /\ latestFinalized' = latest
    /\ votes' = [s \in Slots |-> {}]
    /\ worldLatestSlot' = 0
    /\ requested' = FALSE
    /\ nextExpectedSlot' = latest + 1
    /\ queue' = [s \in Slots |-> NoContent]
    /\ ready' = FALSE
    /\ pc' = [g \in Goroutines |-> "idle"]
    /\ arg' = [g \in Goroutines |-> 0]
    /\ todo' = <<>>
    /\ last' = 0

Init ==
    /\ blocks = [s \in Slots |-> NoBlock]
    /\ finalized = {}
    /\ dbLatestFinalized = 0
    /\ applies = [p \in Paths |-> [s \in Slots |-> 0]]
    /\ latestFinalized = 0
    /\ votes = [s \in Slots |-> {}]
    /\ worldLatestSlot = 0
    /\ requested = FALSE
    /\ nextExpectedSlot = 1
    /\ queue = [s \in Slots |-> NoContent]
    /\ ready = FALSE
    /\ pc = [g \in Goroutines |-> "idle"]
    /\ arg = [g \in Goroutines |-> 0]
    /\ todo = <<>>
    /\ last = 0
    /\ sent = [s \in Slots |-> {}]
    /\ voted = [s \in Slots |-> {}]
    /\ crashes = 0

-----------------------------------------------------------------------------
\* The calls into the store and the collector

HasCompleteBlock(s) == blocks[s].content # NoContent

Goto(g, l, s) ==
    /\ pc' = [pc EXCEPT ![g] = l]
    /\ arg' = [arg EXCEPT ![g] = s]

Return(g) == Goto(g, "idle", 0)

\* Broken variant: a stored block is overwritten.
AddBlockOverwriting(s, c, bad) == blocks' = [blocks EXCEPT ![s] = Block(c, bad)]

AddBlockPending(s, c, bad) ==
    /\ ~ HasCompleteBlock(s)
    /\ blocks' = [blocks EXCEPT ![s] = Block(c, bad)]

\* AddVote of a voter not counted yet; a duplicate is an error and changes nothing.
AddVote(v, s) ==
    /\ v \notin votes[s]
    /\ votes' = [votes EXCEPT ![s] = @ \cup {v}]
    /\ voted' = [voted EXCEPT ![s] = @ \cup {v}]

\* Broken variant: only the vote that reaches the threshold asks to apply.
CommittedExactly(v, s) == Cardinality(votes[s] \cup {v}) = Threshold

Committed(v, s) == Cardinality(votes[s] \cup {v}) >= Threshold

\* Broken variant: an InvalidPoH block is applied like any other.
FinalizeAnyBlock(p, s) ==
    /\ finalized' = finalized \cup {s}
    /\ dbLatestFinalized' = IF s > latestFinalized THEN s ELSE dbLatestFinalized
    /\ applies' = [applies EXCEPT ![p][s] = @ + 1]
    /\ latestFinalized' = s

\* Ledger.FinalizeBlock and BlockStore.FinalizeBlock, one batch: the accounts,
\* the marker and the latest finalized slot.  An InvalidPoH block is skipped.
LedgerFinalize(p, s) ==
    IF blocks[s].invalid
    THEN UNCHANGED <<finalized, dbLatestFinalized, applies, latestFinalized>>
    ELSE /\ finalized' = finalized \cup {s}
         /\ dbLatestFinalized' = IF s > latestFinalized THEN s ELSE dbLatestFinalized
         /\ applies' = [applies EXCEPT ![p][s] = @ + 1]
         /\ latestFinalized' = s

\* Publishing the own vote for s, which may fail.
BroadcastVote(s) ==
    \/ sent' = [sent EXCEPT ![s] = @ \cup {blocks[s].content}]
    \/ UNCHANGED sent

-----------------------------------------------------------------------------
\* The block and leader goroutines

\* A verified gossiped block of a slot led by another node is stored.  A
\* listener is done; a validator goes on to its own vote.
OnBlockReceived(s, c) ==
    /\ ready
    /\ pc["block"] = "idle"
    /\ s \notin OwnSlots
    /\ AddBlockPending(s, c, c \in BadPoh)
    /\ IF Listener THEN Return("block") ELSE Goto("block", "vote", s)
    /\ UNCHANGED <<finalized, dbLatestFinalized, applies, latestFinalized, votes,
                   worldLatestSlot, syncState, ready, sent, voted, crashes>>

\* The own block is stored, then published; only a published block is voted for.
BroadcastBlockWithProcessing(s, c) ==
    /\ ready
    /\ ~ Listener
    /\ pc["leader"] = "idle"
    /\ s \in OwnSlots
    /\ AddBlockPending(s, c, FALSE)
    /\ Goto("leader", "vote", s) \/ Return("leader")
    /\ UNCHANGED <<finalized, dbLatestFinalized, applies, latestFinalized, votes,
                   worldLatestSlot, syncState, ready, sent, voted, crashes>>

\* ProcessVote of the own vote, for the block this goroutine has just stored.
\* A vote that commits nothing is published at once.
OwnVote(g) ==
    /\ pc[g] = "vote"
    /\ AddVote(Self, arg[g])
    /\ IF Committed(Self, arg[g])
       THEN Goto(g, "apply", arg[g]) /\ UNCHANGED sent
       ELSE Return(g) /\ BroadcastVote(arg[g])
    /\ UNCHANGED <<durable, latestFinalized, worldLatestSlot, syncState, ready, crashes>>

-----------------------------------------------------------------------------
\* The vote goroutine

\* AddVote of a gossiped vote; pubsub drops what claims to come from this node.
OnVoteReceived(v, s) ==
    /\ ready
    /\ pc["vote"] = "idle"
    /\ AddVote(v, s)
    /\ IF Committed(v, s) THEN Goto("vote", "check", s) ELSE Return("vote")
    /\ UNCHANGED <<durable, latestFinalized, worldLatestSlot, syncState, ready, sent, crashes>>

\* Broken variant: a committed vote is applied whether or not the block is there.
VoteUnchecked ==
    /\ pc["vote"] = "check"
    /\ Goto("vote", "apply", arg["vote"])
    /\ UNCHANGED <<durable, latestFinalized, votes, worldLatestSlot, syncState, ready, sent,
                   voted, crashes>>

\* A committed vote is dropped if the block is not there yet.
VoteCheck ==
    /\ pc["vote"] = "check"
    /\ IF HasCompleteBlock(arg["vote"]) THEN Goto("vote", "apply", arg["vote"])
                                        ELSE Return("vote")
    /\ UNCHANGED <<durable, latestFinalized, votes, worldLatestSlot, syncState, ready, sent,
                   voted, crashes>>

\* CleanupOldVotes: the votes of slots more than KeepVotes below the newest.
CleanupOldVotes ==
    \E m \in Slots :
        /\ votes[m] # {}
        /\ \A s \in Slots : s > m => votes[s] = {}
        /\ votes' = [s \in Slots |-> IF s < m - KeepVotes THEN {} ELSE votes[s]]
        /\ UNCHANGED <<durable, latestFinalized, worldLatestSlot, syncState, ready, pc, arg,
                       sent, voted, crashes>>

-----------------------------------------------------------------------------
\* applyDataToBlock

\* Broken variant: applyBlockMu is not taken.
NoApplyBlockMu == TRUE

ApplyBlockMuFree == \A g \in Appliers : pc[g] # "finalize"

\* Returning from ProcessVote: the block and leader goroutines publish the vote.
Applied(g) ==
    /\ IF g = "vote" THEN UNCHANGED sent ELSE BroadcastVote(arg[g])
    /\ Return(g)

\* applyBlockMu is taken and the marker read; an applied slot is left alone.
ApplyCheck(g) ==
    /\ pc[g] = "apply"
    /\ ApplyBlockMuFree
    /\ IF arg[g] \in finalized
       THEN Applied(g)
       ELSE Goto(g, "finalize", arg[g]) /\ UNCHANGED sent
    /\ UNCHANGED <<durable, latestFinalized, votes, worldLatestSlot, syncState, ready, voted,
                   crashes>>

\* The block is finalized and applyBlockMu released.
ApplyFinalize(g) ==
    /\ pc[g] = "finalize"
    /\ LedgerFinalize("vote", arg[g])
    /\ Applied(g)
    /\ UNCHANGED <<blocks, votes, worldLatestSlot, syncState, ready, voted, crashes>>

\* The batch of FinalizeBlock is not written: the vote is not published either.
ApplyFails(g) ==
    /\ WritesFail
    /\ pc[g] = "finalize"
    /\ Return(g)
    /\ UNCHANGED <<durable, latestFinalized, votes, worldLatestSlot, syncState, ready, sent,
                   voted, crashes>>

-----------------------------------------------------------------------------
\* The sync goroutine: the ordering queue, under blockOrderingMu

\* Slot k continues the run processConsecutiveBlocks takes from the queue q: it
\* is not beyond the world's latest slot, and is queued or led by this node.
InRun(q, k) == k <= worldLatestSlot /\ (q[k] # NoContent \/ k \in OwnSlots)

\* The run from nextExpectedSlot stops at slot m.
RunStops(q, m) ==
    /\ \A k \in nextExpectedSlot .. m - 1 : InRun(q, k)
    /\ m \in Slots => ~ InRun(q, m)

\* The run as the list to process; an own slot that is not queued gets a filler.
Run(q, m) ==
    [i \in 1 .. m - nextExpectedSlot |->
        LET k == nextExpectedSlot + i - 1
        IN [slot |-> k, content |-> IF q[k] = NoContent THEN Empty ELSE q[k]]]

\* AddBlockToOrderingQueue: a stored slot is skipped, the queue not looked at.
OnSyncResponseReceived(s, c) ==
    /\ requested
    /\ pc["sync"] = "idle"
    /\ ~ HasCompleteBlock(s)
    /\ \E m \in nextExpectedSlot .. MaxSlot + 1 :
          LET q == [queue EXCEPT ![s] = c]
          IN /\ RunStops(q, m)
             /\ todo' = Run(q, m)
             /\ queue' = [k \in Slots |-> IF k \in nextExpectedSlot .. m - 1
                                          THEN NoContent ELSE q[k]]
             /\ nextExpectedSlot' = m
             /\ IF m = nextExpectedSlot
                THEN Return("sync") /\ last' = 0
                ELSE Goto("sync", "add", nextExpectedSlot) /\ last' = m - 1
    /\ UNCHANGED <<durable, latestFinalized, votes, worldLatestSlot, requested, ready, sent,
                   voted, crashes>>

\* On to the next block of the run, if there is one.
SyncNext ==
    /\ todo' = Tail(todo)
    /\ IF Tail(todo) = <<>> THEN Goto("sync", "done", 0)
                            ELSE Goto("sync", "add", Head(Tail(todo)).slot)

\* processBlock up to AddBlockPending: a block that is there already is skipped.
SyncAdd ==
    /\ pc["sync"] = "add"
    /\ LET b == Head(todo)
       IN \/ /\ HasCompleteBlock(b.slot)
             /\ SyncNext
             /\ UNCHANGED blocks
          \/ /\ AddBlockPending(b.slot, b.content, b.content \in BadPoh)
             /\ Goto("sync", "finalize", b.slot)
             /\ UNCHANGED todo
    /\ UNCHANGED <<finalized, dbLatestFinalized, applies, latestFinalized, votes,
                   worldLatestSlot, requested, nextExpectedSlot, queue, last, ready, sent,
                   voted, crashes>>

\* Ledger.FinalizeBlock, without applyBlockMu and without IsApplied.
SyncFinalize ==
    /\ pc["sync"] = "finalize"
    /\ LedgerFinalize("sync", Head(todo).slot)
    /\ SyncNext
    /\ UNCHANGED <<blocks, votes, worldLatestSlot, requested, nextExpectedSlot, queue, last,
                   ready, sent, voted, crashes>>

\* AddBlockPending or FinalizeBlock fails: the block is skipped for good.
SyncFails ==
    /\ WritesFail
    /\ pc["sync"] \in {"add", "finalize"}
    /\ SyncNext
    /\ UNCHANGED <<durable, latestFinalized, votes, worldLatestSlot, requested,
                   nextExpectedSlot, queue, last, ready, sent, voted, crashes>>

\* The run is done: a node that caught up with the world starts its services.
SyncDone ==
    /\ pc["sync"] = "done"
    /\ Return("sync")
    /\ ready' = (ready \/ worldLatestSlot <= last)
    /\ last' = 0
    /\ UNCHANGED <<durable, latestFinalized, votes, worldLatestSlot, requested,
                   nextExpectedSlot, queue, todo, sent, voted, crashes>>

-----------------------------------------------------------------------------
\* Filler blocks, the world's latest slot, start and crash

\* A filler block is stored unverified, and nothing here finalizes it.
OnEmptyBlockReceived(s) ==
    /\ AddBlockPending(s, Empty, FALSE)
    /\ UNCHANGED <<finalized, dbLatestFinalized, applies, latestFinalized, votes,
                   worldLatestSlot, syncState, ready, pc, arg, sent, voted, crashes>>

OnLatestSlotReceived(s) ==
    /\ worldLatestSlot < s
    /\ worldLatestSlot' = s
    /\ UNCHANGED <<durable, latestFinalized, votes, syncState, ready, pc, arg, sent, voted,
                   crashes>>

\* startAfterSyncWithPeers, for a node that is not behind the world it knows.
StartFromLocal ==
    /\ ~ ready
    /\ ~ requested
    /\ latestFinalized >= worldLatestSlot
    /\ ready' = TRUE
    /\ UNCHANGED <<durable, latestFinalized, votes, worldLatestSlot, syncState, pc, arg, sent,
                   voted, crashes>>

\* startAfterSyncWithPeers, for a node that is behind: isSyncWindowAligned
\* waits for a world slot of another leader, then the sync is requested once.
RequestBlockSync ==
    /\ ~ ready
    /\ ~ requested
    /\ latestFinalized < worldLatestSlot
    /\ worldLatestSlot \notin OwnSlots
    /\ requested' = TRUE
    /\ UNCHANGED <<durable, latestFinalized, votes, worldLatestSlot, nextExpectedSlot, queue,
                   todo, last, ready, pc, arg, sent, voted, crashes>>

Crash ==
    /\ crashes < MaxCrashes
    /\ crashes' = crashes + 1
    /\ Started(dbLatestFinalized)
    /\ UNCHANGED <<durable, sent, voted>>

\* The steps of a goroutine that is inside a handler.
Continue(g) ==
    \/ OwnVote(g)
    \/ g = "vote" /\ VoteCheck
    \/ g \in Appliers /\ (ApplyCheck(g) \/ ApplyFinalize(g))
    \/ g = "sync" /\ (SyncAdd \/ SyncFinalize \/ SyncDone)

Next ==
    \/ \E s \in Slots, c \in Contents \ {Empty} : OnBlockReceived(s, c)
    \/ \E s \in Slots, c \in Contents \ (BadPoh \cup {Empty}) :
          BroadcastBlockWithProcessing(s, c)
    \/ \E v \in Voters \ {Self}, s \in Slots : OnVoteReceived(v, s)
    \/ \E s \in Slots, c \in Contents : OnSyncResponseReceived(s, c)
    \/ \E s \in FillerSlots \ OwnSlots : OnEmptyBlockReceived(s)
    \/ \E s \in Slots : OnLatestSlotReceived(s)
    \/ \E g \in Goroutines : Continue(g)
    \/ \E g \in Appliers : ApplyFails(g)
    \/ SyncFails
    \/ CleanupOldVotes
    \/ StartFromLocal
    \/ RequestBlockSync
    \/ Crash

Spec == Init /\ [][Next]_vars

\* A goroutine that can go on does; a mutex that keeps being released is taken,
\* as Go's mutex hands itself to a waiter that starves.
FairSpec ==
    /\ Spec
    /\ \A g \in Goroutines : WF_vars(Continue(g))
    /\ \A g \in Appliers : SF_vars(ApplyCheck(g))

\* Moreover the request for blocks is sent, and some peer has each block that is
\* asked for and streams it as long as it is not stored.
SyncFairSpec ==
    /\ FairSpec
    /\ WF_vars(RequestBlockSync)
    /\ \A s \in Slots : SF_vars(\E c \in Contents : OnSyncResponseReceived(s, c))

-----------------------------------------------------------------------------
\* Properties

\* A node never publishes votes for two blocks of one slot, nor for a block it
\* did not keep: AddBlockPending stores one block per slot, before the vote, and
\* the block survives the restart that loses the votes.
NoDoubleVote == \A s \in Slots : sent[s] \subseteq {blocks[s].content}

\* applyBlockMu and IsApplied let the three goroutines that finalize through
\* applyDataToBlock apply a slot to the accounts at most once, restarts and
\* votes counted again included; the ordering queue does so for sync.
AppliedOncePerPath == \A p \in Paths, s \in Slots : applies[p][s] <= 1

\* What is finalized is a stored block whose proof of history was not found
\* invalid, and either sync brought it or Threshold distinct voters did.
FinalityIsJustified ==
    \A s \in finalized :
        /\ HasCompleteBlock(s)
        /\ ~ blocks[s].invalid
        /\ applies["sync"][s] > 0 \/ Cardinality(voted[s]) >= Threshold

\* The life of a slot as the rest of the node sees it; every slot is recent here.
StatusOf(s) ==
    IF ~ HasCompleteBlock(s) THEN "none" ELSE IF s \in finalized THEN "finalized" ELSE "pending"

RecordOf(s) ==
    IF s = 0 THEN [content |-> Empty, status |-> "finalized"]
    ELSE [content |-> blocks[s].content, status |-> StatusOf(s)]

Store == INSTANCE SlotStore WITH
    Genesis <- Empty,
    KeepRecent <- MaxSlot,
    blocks <- [s \in 0 .. MaxSlot |-> RecordOf(s)],
    finalized <- finalized \cup {0}

\* The four goroutines and the filler handler together take every slot through the
\* life that BlockStore shows of the store under them: one block, pending, then
\* finalized, for good.  No handler finalizes a slot whose block it has not seen,
\* although the vote handler gets there by votes alone.
FollowsSlotStore == Store!SSpec

\* A block whose own vote and whose quorum are counted is finalized in the end,
\* in whatever order block, own vote and other votes came in.
QuorumFinalizes ==
    \A s \in Slots :
        Self \in votes[s] /\ Cardinality(votes[s]) >= Threshold /\ ~ blocks[s].invalid
            ~> s \in finalized

\* "Lock to ensure thread safety for concurrent apply processing", "check block
\* apply or not": no slot is applied to the accounts twice.
AppliedOnce == \A s \in Slots : applies["vote"][s] + applies["sync"][s] <= 1

\* "Add to ordering queue - this will process block in order": when sync applies
\* a block, every lower slot was finalized before it.
SyncAppliesInOrder ==
    [][\A s \in Slots : applies'["sync"][s] # applies["sync"][s] =>
           1 .. s - 1 \subseteq finalized]_vars

\* "Handle node crash, should catchup to world latest slot": a restarted node
\* that asked for blocks finalizes the latest slot it knew of.
CatchUpAfterCrash ==
    \A w \in Slots :
        crashes > 0 /\ latestFinalized > 0 /\ requested /\ worldLatestSlot = w
            ~> latestFinalized >= w
=============================================================================
