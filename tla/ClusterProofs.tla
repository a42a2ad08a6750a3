--------------------------- MODULE ClusterProofs ---------------------------
(***************************************************************************)
(* Theorems about Cluster: type correctness, one proposal per slot,        *)
(* a quorum of holders behind every block finalized by votes, no hole in   *)
(* what the ordering queue has passed, and agreement on what is final, for *)
(* any number of nodes, slots, contents and crashes.                       *)
(***************************************************************************)
EXTENDS Cluster, FiniteSetTheorems, TLAPS

\* A proposal that is stored, queued or published anywhere is the block its
\* leader stores.
Origin ==
    \A s \in Slots :
        /\ \A n \in Nodes : blocks[n][s] \in Proposals => blocks[n][s] = blocks[LeaderOf[s]][s]
        /\ \A n \in Nodes : queue[n][s] \in Proposals => queue[n][s] = blocks[LeaderOf[s]][s]
        /\ \A c \in Proposals : <<s, c>> \in proposed => c = blocks[LeaderOf[s]][s]

\* A filler that is stored or queued was made by the leader of its slot.
Filled ==
    \A n \in Nodes, s \in Slots :
        blocks[n][s] = Empty \/ queue[n][s] = Empty => s \in fillers

\* Who voted for a slot stores a block for it.
VoterStored ==
    \A v \in Nodes, s \in Slots :
        <<v, s>> \in ballots \/ (\E n \in Nodes : v \in votes[n][s]) => blocks[v][s] # NoBlock

StoredBy(s) == {n \in Nodes : blocks[n][s] # NoBlock}

\* What is finalized by votes is stored there and by a quorum.
QuorumStored ==
    \A n \in Nodes, s \in Slots :
        how[n][s] = "vote" => /\ blocks[n][s] # NoBlock
                              /\ Cardinality(StoredBy(s)) >= Threshold

\* A node that has still to ask for blocks will ask from the slot its ordering
\* queue waits for; only a node that asked reads a stream.
Waiting ==
    \A n \in Nodes :
        /\ ~ ready[n] /\ requested[n] = 0 => next[n] = latest[n] + 1
        /\ stream[n].peer # n => requested[n] # 0

\* The inductive invariant.
Inv == TypeOK /\ Origin /\ Filled /\ VoterStored /\ QuorumStored /\ Waiting /\ NoHoles

\* No step replaces a stored block.
Kept == \A n \in Nodes, s \in Slots : blocks[n][s] # NoBlock => blocks'[n][s] = blocks[n][s]

-----------------------------------------------------------------------------

LEMMA ThresholdType == Threshold \in Nat
<1>1. Total \div 3 \in Nat
  BY NumberAssumption
<1> QED
  BY <1>1 DEF Threshold

\* A count that does not fall stays at the bound it has reached.
LEMMA StaysReached ==
    ASSUME NEW a \in Nat, NEW b \in Nat, NEW t \in Nat, b >= a, a >= t
    PROVE  b >= t
OBVIOUS

\* A slot is a number that the latest finalized slot can take.
LEMMA SlotsInRange == Slots \subseteq 0 .. MaxSlot
BY ScheduleAssumption DEF Slots

\* The field lemma of a stream record.
LEMMA StreamField ==
    ASSUME TypeOK, NEW n \in Nodes
    PROVE  /\ stream[n].peer \in Nodes
           /\ stream[n].slot \in 1 .. MaxSlot + 1
           /\ stream[n].to \in 0 .. MaxSlot
  BY DEF TypeOK

LEMMA InitInv == Init => Inv
<1> SUFFICES ASSUME Init PROVE Inv
  OBVIOUS
<1> USE ScheduleAssumption, ProposalAssumption, NumberAssumption
<1>1. TypeOK
  <2>1. stream \in [Nodes -> [peer : Nodes, slot : 1 .. MaxSlot + 1, to : 0 .. MaxSlot]]
    BY DEF Init, NoStream
  <2> QED
    BY <2>1 DEF Init, TypeOK, Contents, Slots
<1>2. Origin
  BY DEF Init, Origin, Slots
<1>3. Filled
  BY DEF Init, Filled, Empty, NoBlock
<1>4. VoterStored /\ QuorumStored
  BY DEF Init, VoterStored, QuorumStored
<1>5. Waiting /\ NoHoles
  BY DEF Init, Waiting, NoHoles, NoStream
<1> QED
  BY <1>1, <1>2, <1>3, <1>4, <1>5 DEF Inv

LEMMA StoredStays ==
    ASSUME Kept
    PROVE  \A m \in Nodes, j \in Slots : blocks[m][j] # NoBlock => blocks'[m][j] # NoBlock
  BY Zenon DEF Kept

\* The quorum behind a slot does not shrink while blocks are kept.
LEMMA StoredGrows ==
    ASSUME Kept, NEW s \in Slots
    PROVE  /\ IsFiniteSet(StoredBy(s)) /\ IsFiniteSet(StoredBy(s)')
           /\ Cardinality(StoredBy(s)) \in Nat /\ Cardinality(StoredBy(s)') \in Nat
           /\ Cardinality(StoredBy(s)) <= Cardinality(StoredBy(s)')
<1>1. StoredBy(s) \subseteq StoredBy(s)'
  BY DEF StoredBy, Kept
<1>2. IsFiniteSet(StoredBy(s)) /\ IsFiniteSet(StoredBy(s)')
  <2>1. StoredBy(s) \subseteq Nodes /\ StoredBy(s)' \subseteq Nodes
    BY DEF StoredBy
  <2> QED
    BY <2>1, NodeAssumption, FS_Subset
<1> QED
  BY <1>1, <1>2, FS_Subset, FS_CardinalityType

LEMMA AddBlock ==
    ASSUME TypeOK, NEW n \in Nodes, NEW s \in Slots, NEW c \in Contents,
           AddBlockPending(n, s, c)
    PROVE  /\ blocks' \in [Nodes -> [Slots -> Contents]]
           /\ \A m \in Nodes, k \in Slots :
                 blocks'[m][k] = IF m = n /\ k = s THEN c ELSE blocks[m][k]
           /\ Kept
  BY DEF TypeOK, AddBlockPending, Kept

\* A vote of a node that stores a block, counted at n.
LEMMA VoteCounted ==
    ASSUME Inv, Kept, NEW n \in Nodes, NEW v \in Nodes, NEW s \in Slots,
           ProcessVote(n, v, s), blocks'[v][s] # NoBlock
    PROVE  /\ votes' \in [Nodes -> [Slots -> SUBSET Nodes]]
           /\ how' \in [Nodes -> [Slots -> {"none", "vote", "sync"}]]
           /\ latest' \in [Nodes -> 0 .. MaxSlot]
           /\ dbLatest' \in [Nodes -> 0 .. MaxSlot]
           /\ \A w \in Nodes, k \in Slots :
                 (\E m \in Nodes : w \in votes'[m][k]) => blocks'[w][k] # NoBlock
           /\ QuorumStored'
           /\ \A m \in Nodes : m # n => latest'[m] = latest[m]
<1>1. s \in 0 .. MaxSlot
  BY ScheduleAssumption DEF Slots
<1>2. /\ votes' \in [Nodes -> [Slots -> SUBSET Nodes]]
      /\ \A m \in Nodes, k \in Slots :
            votes'[m][k] = IF m = n /\ k = s THEN votes[n][s] \cup {v} ELSE votes[m][k]
  BY DEF Inv, TypeOK, ProcessVote
<1>3. /\ how' \in [Nodes -> [Slots -> {"none", "vote", "sync"}]]
      /\ latest' \in [Nodes -> 0 .. MaxSlot]
      /\ dbLatest' \in [Nodes -> 0 .. MaxSlot]
      /\ \A m \in Nodes : m # n => latest'[m] = latest[m]
  <2>1. /\ how \in [Nodes -> [Slots -> {"none", "vote", "sync"}]]
        /\ latest \in [Nodes -> 0 .. MaxSlot]
        /\ dbLatest \in [Nodes -> 0 .. MaxSlot]
    BY DEF Inv, TypeOK
  <2>2. CASE UNCHANGED <<how, latest, dbLatest>>
    BY <2>1, <2>2
  <2>3. CASE /\ how' = [how EXCEPT ![n][s] = "vote"]
             /\ latest' = [latest EXCEPT ![n] = s]
             /\ dbLatest' = [dbLatest EXCEPT ![n] = IF s > latest[n] THEN s ELSE @]
    <3>1. how' \in [Nodes -> [Slots -> {"none", "vote", "sync"}]]
      BY <2>1, <2>3
    <3>2. latest' \in [Nodes -> 0 .. MaxSlot] /\ \A m \in Nodes : m # n => latest'[m] = latest[m]
      BY <1>1, <2>1, <2>3
    <3>3. (IF s > latest[n] THEN s ELSE dbLatest[n]) \in 0 .. MaxSlot
      BY <1>1, <2>1
    <3>4. dbLatest' \in [Nodes -> 0 .. MaxSlot]
      BY <2>1, <2>3, <3>3
    <3> QED
      BY <3>1, <3>2, <3>4
  <2> QED
    BY <2>2, <2>3 DEF ProcessVote
<1>4. \A w \in Nodes, k \in Slots :
         (\E m \in Nodes : w \in votes'[m][k]) => blocks'[w][k] # NoBlock
  <2> SUFFICES ASSUME NEW w \in Nodes, NEW k \in Slots, NEW m \in Nodes, w \in votes'[m][k]
               PROVE  blocks'[w][k] # NoBlock
    OBVIOUS
  <2>1. CASE w = v /\ k = s
    BY <2>1
  <2>2. CASE w \in votes[m][k]
    <3>1. blocks[w][k] # NoBlock
      BY <2>2, Zenon DEF Inv, VoterStored
    <3> QED
      BY <3>1 DEF Kept
  <2> QED
    BY <1>2, <2>1, <2>2
<1>5. QuorumStored'
  <2> SUFFICES ASSUME NEW m \in Nodes, NEW k \in Slots, how'[m][k] = "vote"
               PROVE  blocks'[m][k] # NoBlock /\ Cardinality(StoredBy(k)') >= Threshold
    BY DEF QuorumStored
  <2>1. CASE how[m][k] = "vote"
    <3>1. blocks[m][k] # NoBlock /\ Cardinality(StoredBy(k)) >= Threshold
      BY <2>1 DEF Inv, QuorumStored
    <3> QED
      BY <3>1, StoredGrows, ThresholdType DEF Kept
  <2>2. CASE how[m][k] # "vote"
    <3>1. /\ m = n /\ k = s
          /\ Cardinality(votes[n][s] \cup {v}) >= Threshold
          /\ blocks'[n][s] # NoBlock
      BY <2>2 DEF Inv, TypeOK, ProcessVote
    <3>2. votes[n][s] \cup {v} \subseteq StoredBy(s)'
      BY <1>2, <1>4, <3>1 DEF StoredBy, Inv, TypeOK
    <3>3. IsFiniteSet(StoredBy(s)')
      BY StoredGrows
    <3>4. /\ Cardinality(votes[n][s] \cup {v}) <= Cardinality(StoredBy(s)')
          /\ Cardinality(votes[n][s] \cup {v}) \in Nat /\ Cardinality(StoredBy(s)') \in Nat
      BY <3>2, <3>3, FS_Subset, FS_CardinalityType
    <3> QED
      BY <3>1, <3>4, ThresholdType
  <2> QED
    BY <2>1, <2>2
<1> QED
  BY <1>2, <1>3, <1>4, <1>5

\* A step that stores the block c of slot s at n, published or made there, and
\* touches no queue.
LEMMA BlockStored ==
    ASSUME Inv, NEW n \in Nodes, NEW s \in Slots, NEW c \in Contents \ {NoBlock},
           AddBlockPending(n, s, c), UNCHANGED <<queue, fillers>>,
           c = Empty => s \in fillers,
           c \in Proposals => LeaderOf[s] = n \/ c = blocks[LeaderOf[s]][s]
    PROVE  /\ \A k \in Slots :
                 /\ \A m \in Nodes : blocks'[m][k] \in Proposals
                                        => blocks'[m][k] = blocks'[LeaderOf[k]][k]
                 /\ \A m \in Nodes : queue'[m][k] \in Proposals
                                        => queue'[m][k] = blocks'[LeaderOf[k]][k]
                 /\ \A d \in Proposals : <<k, d>> \in proposed => d = blocks'[LeaderOf[k]][k]
           /\ Filled'
<1>1. /\ \A m \in Nodes, k \in Slots :
            blocks'[m][k] = IF m = n /\ k = s THEN c ELSE blocks[m][k]
      /\ blocks[n][s] = NoBlock
  BY AddBlock, ZenonT(40) DEF Inv, AddBlockPending
<1>2. \A k \in Slots : LeaderOf[k] \in Nodes
  BY ScheduleAssumption
<1>3. NoBlock \notin Proposals
  BY ProposalAssumption
<1>4. Filled'
  BY <1>1 DEF Inv, Filled
<1>5. ASSUME NEW k \in Slots, NEW d \in Proposals, d = blocks[LeaderOf[k]][k]
      PROVE  d = blocks'[LeaderOf[k]][k]
  BY <1>1, <1>2, <1>3, <1>5
<1>6. ASSUME NEW k \in Slots, NEW m \in Nodes, blocks'[m][k] \in Proposals
      PROVE  blocks'[m][k] = blocks'[LeaderOf[k]][k]
  <2>1. CASE m = n /\ k = s
    BY <1>1, <1>2, <1>5, <1>6, <2>1
  <2>2. CASE ~ (m = n /\ k = s)
    BY <1>1, <1>5, <1>6, <2>2 DEF Inv, Origin
  <2> QED
    BY <2>1, <2>2
<1> QED
  BY <1>4, <1>5, <1>6 DEF Inv, Origin

\* Kept blocks keep the quorums and leave no hole.
LEMMA QuorumsStay ==
    ASSUME Inv, Kept, UNCHANGED how
    PROVE  QuorumStored'
<1> SUFFICES ASSUME NEW m \in Nodes, NEW k \in Slots, how[m][k] = "vote"
             PROVE  blocks'[m][k] # NoBlock /\ Cardinality(StoredBy(k)') >= Threshold
  BY DEF QuorumStored
<1>1. blocks[m][k] # NoBlock /\ Cardinality(StoredBy(k)) >= Threshold
  BY DEF Inv, QuorumStored
<1> QED
  BY <1>1, StoredGrows, ThresholdType DEF Kept

LEMMA HolesStayClosed ==
    ASSUME Inv, Kept, UNCHANGED <<requested, next>>
    PROVE  NoHoles'
<1> SUFFICES ASSUME NEW m \in Nodes, requested[m] # 0, NEW k \in requested[m] .. next[m] - 1
             PROVE  blocks'[m][k] # NoBlock
  BY DEF NoHoles
<1>1. requested[m] \in 0 .. MaxSlot /\ next[m] \in 1 .. MaxSlot + 1 /\ MaxSlot \in Nat
  BY ScheduleAssumption DEF Inv, TypeOK
<1>2. k \in Slots
  BY <1>1 DEF Slots
<1>3. blocks[m][k] # NoBlock
  BY DEF Inv, NoHoles
<1> QED
  BY <1>2, <1>3 DEF Kept

\* What a ready node's vote handling leaves true, whichever handler it is in.
LEMMA VoteKeeps ==
    ASSUME Inv, Kept, NEW n \in Nodes, NEW v \in Nodes, NEW s \in Slots, ready[n],
           ProcessVote(n, v, s), blocks'[v][s] # NoBlock,
           UNCHANGED <<world, ready, syncing, crashes>>
    PROVE  Waiting' /\ NoHoles'
<1>1. Waiting'
  BY VoteCounted, Zenon DEF Inv, Waiting, syncing
<1>2. NoHoles'
  BY HolesStayClosed DEF syncing
<1> QED
  BY <1>1, <1>2

\* A proposal is stored and voted for.
LEMMA StoredAndVoted ==
    ASSUME Inv, NEW n \in Nodes, NEW s \in Slots, NEW c \in Proposals, ready[n],
           AddBlockPending(n, s, c), OwnVote(n, s), Origin', Filled',
           proposed' \subseteq Slots \X Proposals,
           UNCHANGED <<world, ready, syncing, fillers, crashes>>
    PROVE  Inv'
<1> USE DEF Inv
<1>1. c \in Contents \ {NoBlock}
  BY ProposalAssumption DEF Contents
<1>2. blocks' \in [Nodes -> [Slots -> Contents]] /\ blocks'[n][s] # NoBlock /\ Kept
  BY <1>1, AddBlock
<1>3. ProcessVote(n, n, s) /\ ballots' = ballots \cup {<<n, s>>}
  BY DEF OwnVote
<1>4. TypeOK'
  <2>1. /\ votes' \in [Nodes -> [Slots -> SUBSET Nodes]]
        /\ how' \in [Nodes -> [Slots -> {"none", "vote", "sync"}]]
        /\ latest' \in [Nodes -> 0 .. MaxSlot]
        /\ dbLatest' \in [Nodes -> 0 .. MaxSlot]
    BY <1>2, <1>3, VoteCounted
  <2>2. ballots' \subseteq Nodes \X Slots
    BY <1>3 DEF TypeOK
  <2> QED
    BY <1>2, <2>1, <2>2 DEF TypeOK, syncing
<1>5. VoterStored'
  <2>1. \A w \in Nodes, k \in Slots :
           (\E m \in Nodes : w \in votes'[m][k]) => blocks'[w][k] # NoBlock
    BY <1>2, <1>3, VoteCounted
  <2>2. \A w \in Nodes, k \in Slots : <<w, k>> \in ballots' => blocks'[w][k] # NoBlock
    BY <1>2, <1>3 DEF VoterStored, Kept
  <2> QED
    BY <2>1, <2>2 DEF VoterStored
<1>6. QuorumStored'
  BY <1>2, <1>3, VoteCounted
<1>7. Waiting' /\ NoHoles'
  BY <1>2, <1>3, VoteKeeps
<1> QED
  BY <1>4, <1>5, <1>6, <1>7

LEMMA BroadcastKeeps ==
    ASSUME Inv, NEW n \in Nodes, NEW s \in Slots, NEW c \in Proposals, BroadcastBlock(n, s, c)
    PROVE  Inv'
<1> USE DEF Inv
<1>1. /\ AddBlockPending(n, s, c) /\ c \in Contents \ {NoBlock} /\ c # Empty
      /\ ready[n] /\ LeaderOf[s] = n
      /\ UNCHANGED <<world, ready, syncing, fillers, crashes>>
  BY ProposalAssumption DEF BroadcastBlock, Contents
<1>2. /\ blocks' \in [Nodes -> [Slots -> Contents]]
      /\ blocks'[n][s] = c
      /\ Kept
  BY <1>1, AddBlock
<1>3. /\ \A k \in Slots :
            /\ \A m \in Nodes : blocks'[m][k] \in Proposals
                                   => blocks'[m][k] = blocks'[LeaderOf[k]][k]
            /\ \A m \in Nodes : queue'[m][k] \in Proposals
                                   => queue'[m][k] = blocks'[LeaderOf[k]][k]
            /\ \A d \in Proposals : <<k, d>> \in proposed => d = blocks'[LeaderOf[k]][k]
      /\ Filled'
  BY <1>1, BlockStored DEF syncing
<1>4. CASE proposed' = proposed \cup {<<s, c>>} /\ OwnVote(n, s)
  <2>1. Origin'
    BY <1>1, <1>2, <1>3, <1>4 DEF Origin
  <2>2. proposed' \subseteq Slots \X Proposals
    BY <1>4 DEF TypeOK
  <2> QED
    BY <1>1, <1>3, <1>4, <2>1, <2>2, StoredAndVoted
<1>5. CASE UNCHANGED <<proposed, votes, how, latest, dbLatest, ballots>>
  <2>1. Origin'
    BY <1>3, <1>5 DEF Origin
  <2>2. TypeOK'
    BY <1>1, <1>2, <1>5 DEF TypeOK, syncing
  <2>3. VoterStored'
    BY <1>2, <1>5 DEF VoterStored, Kept
  <2>4. QuorumStored'
    BY <1>2, <1>5, QuorumsStay
  <2>5. Waiting'
    BY <1>1, <1>5, Zenon DEF Waiting, syncing
  <2>6. NoHoles'
    BY <1>1, <1>2, HolesStayClosed DEF syncing
  <2> QED
    BY <1>3, <2>1, <2>2, <2>3, <2>4, <2>5, <2>6
<1> QED
  BY <1>4, <1>5 DEF BroadcastBlock

LEMMA OnBlockReceivedKeeps ==
    ASSUME Inv, NEW n \in Nodes, NEW s \in Slots, NEW c \in Proposals, OnBlockReceived(n, s, c)
    PROVE  Inv'
<1> USE DEF Inv
<1>1. /\ AddBlockPending(n, s, c) /\ c \in Contents \ {NoBlock} /\ c # Empty
      /\ ready[n] /\ OwnVote(n, s) /\ <<s, c>> \in proposed
      /\ UNCHANGED <<world, ready, syncing, proposed, fillers, crashes>>
  BY ProposalAssumption DEF OnBlockReceived, Contents
<1>2. c = blocks[LeaderOf[s]][s]
  BY <1>1 DEF Origin
<1>3. Origin' /\ Filled'
  BY <1>1, <1>2, BlockStored, Zenon DEF Origin, syncing
<1>4. proposed' \subseteq Slots \X Proposals
  BY <1>1 DEF TypeOK
<1> QED
  BY <1>1, <1>3, <1>4, StoredAndVoted

LEMMA OnVoteReceivedKeeps ==
    ASSUME Inv, NEW n \in Nodes, NEW v \in Nodes, NEW s \in Slots, OnVoteReceived(n, v, s)
    PROVE  Inv'
<1> USE DEF Inv
<1>1. /\ ready[n] /\ <<v, s>> \in ballots /\ ProcessVote(n, v, s)
      /\ UNCHANGED <<blocks, world, ready, syncing, published, crashes>>
  BY DEF OnVoteReceived
<1>2. Kept /\ blocks'[v][s] # NoBlock
  BY <1>1 DEF Kept, VoterStored
<1>3. /\ votes' \in [Nodes -> [Slots -> SUBSET Nodes]]
      /\ how' \in [Nodes -> [Slots -> {"none", "vote", "sync"}]]
      /\ latest' \in [Nodes -> 0 .. MaxSlot]
      /\ dbLatest' \in [Nodes -> 0 .. MaxSlot]
      /\ \A w \in Nodes, k \in Slots :
            (\E m \in Nodes : w \in votes'[m][k]) => blocks'[w][k] # NoBlock
      /\ QuorumStored'
  BY <1>1, <1>2, VoteCounted
<1>4. TypeOK'
  BY <1>1, <1>3 DEF TypeOK, syncing, published
<1>5. Origin' /\ Filled'
  BY <1>1, Zenon DEF Origin, Filled, syncing, published
<1>6. VoterStored'
  BY <1>1, <1>3 DEF VoterStored, published
<1>7. Waiting' /\ NoHoles'
  BY <1>1, <1>2, VoteKeeps
<1> QED
  BY <1>3, <1>4, <1>5, <1>6, <1>7

LEMMA OnEmptyBlockReceivedKeeps ==
    ASSUME Inv, NEW n \in Nodes, NEW s \in Slots, OnEmptyBlockReceived(n, s)
    PROVE  Inv'
<1> USE DEF Inv
<1>1. /\ AddBlockPending(n, s, Empty) /\ s \in fillers
      /\ Empty \in Contents \ {NoBlock} /\ Empty \notin Proposals
      /\ UNCHANGED <<how, dbLatest, latest, votes, world, ready, syncing, published, crashes>>
  BY ProposalAssumption DEF OnEmptyBlockReceived, Contents, Empty, NoBlock
<1>2. blocks' \in [Nodes -> [Slots -> Contents]] /\ Kept
  BY <1>1, AddBlock
<1>3. Origin' /\ Filled'
  BY <1>1, BlockStored, Zenon DEF Origin, syncing, published
<1>4. TypeOK'
  BY <1>1, <1>2 DEF TypeOK, syncing, published
<1>5. VoterStored'
  BY <1>1, <1>2, Zenon DEF VoterStored, Kept, published
<1>6. QuorumStored' /\ NoHoles'
  BY <1>1, <1>2, QuorumsStay, HolesStayClosed DEF syncing
<1>7. Waiting'
  BY <1>1 DEF Waiting, syncing
<1> QED
  BY <1>3, <1>4, <1>5, <1>6, <1>7

\* Steps that store nothing, publish nothing, count nothing and queue nothing.
LEMMA QuietKeeps ==
    ASSUME Inv, UNCHANGED <<durable, published>>,
           \A n \in Nodes, s \in Slots :
               /\ queue'[n][s] \in {queue[n][s], NoBlock}
               /\ votes'[n][s] \subseteq votes[n][s]
    PROVE  Origin' /\ Filled' /\ VoterStored' /\ QuorumStored'
<1> USE DEF Inv, durable, published
<1>1. Origin'
  BY ProposalAssumption DEF Origin
<1>2. Filled'
  BY DEF Filled, Empty, NoBlock
<1>3. VoterStored'
  BY DEF VoterStored
<1>4. QuorumStored'
  BY QuorumsStay DEF Kept
<1> QED
  BY <1>1, <1>2, <1>3, <1>4

LEMMA OnLatestSlotReceivedKeeps ==
    ASSUME Inv, NEW n \in Nodes, NEW p \in Nodes, OnLatestSlotReceived(n, p)
    PROVE  Inv'
<1> USE DEF Inv
<1>1. Origin' /\ Filled' /\ VoterStored' /\ QuorumStored'
  BY QuietKeeps DEF OnLatestSlotReceived, syncing
<1>2. TypeOK'
  BY DEF OnLatestSlotReceived, TypeOK, durable, syncing, published
<1>3. Waiting'
  BY Zenon DEF OnLatestSlotReceived, Waiting, syncing
<1>4. NoHoles'
  BY DEF OnLatestSlotReceived, NoHoles, durable, syncing
<1> QED
  BY <1>1, <1>2, <1>3, <1>4

LEMMA StartFromLocalKeeps ==
    ASSUME Inv, NEW n \in Nodes, StartFromLocal(n)
    PROVE  Inv'
<1> USE DEF Inv
<1>1. Origin' /\ Filled' /\ VoterStored' /\ QuorumStored'
  BY QuietKeeps DEF StartFromLocal, syncing
<1>2. TypeOK'
  BY DEF StartFromLocal, TypeOK, durable, syncing, published
<1>3. Waiting'
  BY DEF StartFromLocal, Waiting, TypeOK, syncing
<1>4. NoHoles'
  BY Zenon DEF StartFromLocal, NoHoles, durable, syncing
<1> QED
  BY <1>1, <1>2, <1>3, <1>4

\* The request starts at the slot the ordering queue waits for, so that nothing
\* of the range has been passed yet.
LEMMA RequestBlockSyncKeeps ==
    ASSUME Inv, NEW n \in Nodes, RequestBlockSync(n)
    PROVE  Inv'
<1> USE DEF Inv
<1>1. Origin' /\ Filled' /\ VoterStored' /\ QuorumStored'
  BY QuietKeeps DEF RequestBlockSync
<1>2. /\ latest[n] \in 0 .. MaxSlot /\ world[n] \in 0 .. MaxSlot /\ MaxSlot \in Nat
      /\ latest[n] < world[n] /\ next[n] = latest[n] + 1
  BY ScheduleAssumption DEF RequestBlockSync, TypeOK, Waiting
<1>3. TypeOK'
  <2>1. latest[n] + 1 \in 0 .. MaxSlot
    BY <1>2
  <2>2. requested' \in [Nodes -> 0 .. MaxSlot]
    BY <2>1 DEF RequestBlockSync, TypeOK
  <2> QED
    BY <2>2 DEF RequestBlockSync, TypeOK, durable, published
<1>4. /\ requested'[n] = latest[n] + 1
      /\ \A m \in Nodes : m # n => requested'[m] = requested[m]
      /\ UNCHANGED <<blocks, latest, ready, next, stream>>
  BY DEF RequestBlockSync, TypeOK, durable
<1>5. Waiting'
  <2>1. requested'[n] # 0
    BY <1>2, <1>4
  <2> QED
    BY <1>4, <2>1, Zenon DEF Waiting
<1>6. NoHoles'
  <2> SUFFICES ASSUME NEW m \in Nodes, requested'[m] # 0
               PROVE  \A s \in requested'[m] .. next[m] - 1 : blocks[m][s] # NoBlock
    BY <1>4 DEF NoHoles
  <2>1. CASE m = n
    BY <1>2, <1>4, <2>1
  <2>2. CASE m # n
    BY <1>4, <2>2 DEF NoHoles
  <2> QED
    BY <2>1, <2>2
<1> QED
  BY <1>1, <1>3, <1>5, <1>6

LEMMA WindowEndType ==
    ASSUME TypeOK, NEW p \in Nodes, NEW k \in 1 .. MaxSlot + 1
    PROVE  WindowEnd(p, k) \in 0 .. MaxSlot
<1>1. latest[p] \in 0 .. MaxSlot /\ BatchSize \in Nat \ {0} /\ MaxSlot \in Nat
  BY ScheduleAssumption, NumberAssumption DEF TypeOK
<1> QED
  BY <1>1 DEF WindowEnd

\* Steps that move the streams only.
LEMMA StreamMoves ==
    ASSUME Inv, NEW n \in Nodes,
           NEW r \in [peer : Nodes, slot : 1 .. MaxSlot + 1, to : 0 .. MaxSlot],
           r.peer # n => requested[n] # 0,
           stream' \in {stream, [stream EXCEPT ![n] = r]},
           answered' \in [Nodes -> SUBSET Nodes],
           UNCHANGED <<durable, latest, votes, world, ready, requested, next, queue, published,
                       crashes>>
    PROVE  Inv'
<1> USE DEF Inv
<1>1. Origin' /\ Filled' /\ VoterStored' /\ QuorumStored'
  BY QuietKeeps
<1>2. /\ stream' \in [Nodes -> [peer : Nodes, slot : 1 .. MaxSlot + 1, to : 0 .. MaxSlot]]
      /\ \A m \in Nodes : stream'[m] = stream[m] \/ (m = n /\ stream'[m] = r)
  <2>1. PICK S : S = [peer : Nodes, slot : 1 .. MaxSlot + 1, to : 0 .. MaxSlot]
    BY Zenon
  <2>2. stream \in [Nodes -> S] /\ r \in S
    BY <2>1 DEF TypeOK
  <2>3. stream' \in [Nodes -> S]
        /\ \A m \in Nodes : stream'[m] = stream[m] \/ (m = n /\ stream'[m] = r)
    BY <2>2
  <2> QED
    BY <2>1, <2>3
<1>3. TypeOK'
  BY <1>2 DEF TypeOK, durable, published
<1>4. Waiting'
  BY <1>2, Zenon DEF Waiting
<1>5. NoHoles'
  BY DEF NoHoles, durable
<1> QED
  BY <1>1, <1>3, <1>4, <1>5

LEMMA SendBlocksOverStreamKeeps ==
    ASSUME Inv, NEW n \in Nodes, NEW p \in Nodes, SendBlocksOverStream(n, p)
    PROVE  Inv'
<1> DEFINE r == [peer |-> p, slot |-> requested[n], to |-> WindowEnd(p, requested[n])]
<1>1. requested[n] \in 1 .. MaxSlot + 1 /\ requested[n] # 0
  <2>1. requested[n] \in 0 .. MaxSlot /\ requested[n] # 0
    BY Zenon DEF Inv, TypeOK, SendBlocksOverStream
  <2>2. MaxSlot \in Nat
    BY ScheduleAssumption, Zenon
  <2> QED
    BY <2>1, <2>2
<1>2. r \in [peer : Nodes, slot : 1 .. MaxSlot + 1, to : 0 .. MaxSlot]
  BY <1>1, WindowEndType, Zenon DEF Inv
<1>3. answered' \in [Nodes -> SUBSET Nodes]
  BY Zenon DEF Inv, TypeOK, SendBlocksOverStream
<1>4. stream' \in {stream, [stream EXCEPT ![n] = r]}
  BY Zenon DEF SendBlocksOverStream
<1>5. UNCHANGED <<durable, latest, votes, world, ready, requested, next, queue, published, crashes>>
  BY DEF SendBlocksOverStream
<1> HIDE DEF r
<1> QED
  BY <1>1, <1>2, <1>3, <1>4, <1>5, StreamMoves

LEMMA NextWindowKeeps ==
    ASSUME Inv, NEW n \in Nodes, NextWindow(n)
    PROVE  Inv'
<1> DEFINE p == stream[n].peer
<1> DEFINE k == stream[n].slot
<1> DEFINE r == [peer |-> p, slot |-> k, to |-> WindowEnd(p, k)]
<1>1. p \in Nodes /\ k \in 1 .. MaxSlot + 1
  BY StreamField DEF Inv
<1>2. r \in [peer : Nodes, slot : 1 .. MaxSlot + 1, to : 0 .. MaxSlot]
  BY <1>1, WindowEndType DEF Inv
<1>3. r.peer # n => requested[n] # 0
  BY DEF Inv, Waiting
<1>4. stream' = [stream EXCEPT ![n] = r]
  <2>1. stream[n] \in [peer : Nodes, slot : 1 .. MaxSlot + 1, to : 0 .. MaxSlot]
    BY DEF Inv, TypeOK
  <2>2. [stream[n] EXCEPT !.to = WindowEnd(p, k)] = r
    BY <2>1
  <2>3. stream' = [stream EXCEPT ![n] = [stream[n] EXCEPT !.to = WindowEnd(p, k)]]
    BY DEF NextWindow
  <2> QED
    BY <2>2, <2>3, Zenon
<1>5. /\ answered' \in [Nodes -> SUBSET Nodes]
      /\ UNCHANGED <<durable, latest, votes, world, ready, requested, next, queue, published,
                     crashes>>
  BY DEF NextWindow, Inv, TypeOK
<1> HIDE DEF r
<1> QED
  BY <1>2, <1>3, <1>4, <1>5, StreamMoves, Zenon

LEMMA StreamEndKeeps ==
    ASSUME Inv, NEW n \in Nodes, StreamEnd(n)
    PROVE  Inv'
<1>1. NoStream(n) \in [peer : Nodes, slot : 1 .. MaxSlot + 1, to : 0 .. MaxSlot]
  BY ScheduleAssumption DEF NoStream
<1>2. NoStream(n).peer = n
  BY DEF NoStream
<1>3. /\ stream' = [stream EXCEPT ![n] = NoStream(n)]
      /\ answered' \in [Nodes -> SUBSET Nodes]
      /\ UNCHANGED <<durable, latest, votes, world, ready, requested, next, queue, published,
                     crashes>>
  BY DEF StreamEnd, Inv, TypeOK
<1> QED
  BY <1>1, <1>2, <1>3, StreamMoves, Zenon

LEMMA CrashKeeps ==
    ASSUME Inv, NEW n \in Nodes, Crash(n)
    PROVE  Inv'
<1> USE DEF Inv
<1>1. Origin' /\ Filled' /\ VoterStored' /\ QuorumStored'
  <2>1. \A m \in Nodes, s \in Slots :
           /\ queue'[m][s] \in {queue[m][s], NoBlock}
           /\ votes'[m][s] \subseteq votes[m][s]
    BY DEF Crash, TypeOK
  <2> QED
    BY <2>1, QuietKeeps, Zenon DEF Crash
<1>2. dbLatest[n] \in 0 .. MaxSlot /\ MaxSlot \in Nat
  BY ScheduleAssumption DEF TypeOK
<1>3. /\ stream' \in [Nodes -> [peer : Nodes, slot : 1 .. MaxSlot + 1, to : 0 .. MaxSlot]]
      /\ \A m \in Nodes : m = n \/ stream'[m] # stream[m] => stream'[m].peer = m
  <2>1. PICK S : S = [peer : Nodes, slot : 1 .. MaxSlot + 1, to : 0 .. MaxSlot]
    BY Zenon
  <2>2. \A m \in Nodes : NoStream(m) \in S /\ NoStream(m).peer = m
    BY <1>2, <2>1 DEF NoStream
  <2>3. stream \in [Nodes -> S]
    BY <2>1 DEF TypeOK
  <2>4. stream' = [m \in Nodes |-> IF n \in {m, stream[m].peer} THEN NoStream(m) ELSE stream[m]]
    BY Zenon DEF Crash
  <2>5. stream' \in [Nodes -> S]
        /\ \A m \in Nodes : m = n \/ stream'[m] # stream[m] => stream'[m].peer = m
    BY <2>2, <2>3, <2>4
  <2> QED
    BY <2>1, <2>5
<1>4. TypeOK'
  <2>0. 0 \in 0 .. MaxSlot /\ dbLatest[n] + 1 \in 1 .. MaxSlot + 1
    BY <1>2
  <2>1. /\ latest' \in [Nodes -> 0 .. MaxSlot]
        /\ next' \in [Nodes -> 1 .. MaxSlot + 1]
        /\ world' \in [Nodes -> 0 .. MaxSlot]
        /\ requested' \in [Nodes -> 0 .. MaxSlot]
    BY <1>2, <2>0, Zenon DEF Crash, TypeOK
  <2>a. ready' \in [Nodes -> BOOLEAN] /\ answered' \in [Nodes -> SUBSET Nodes]
    BY Zenon DEF Crash, TypeOK
  <2>2. votes' \in [Nodes -> [Slots -> SUBSET Nodes]]
    BY Zenon DEF Crash, TypeOK
  <2>3. queue' \in [Nodes -> [Slots -> Contents]]
    BY Zenon DEF Crash, TypeOK, Contents
  <2>4. crashes' \in 0 .. MaxCrashes
    BY NumberAssumption DEF Crash, TypeOK
  <2> QED
    BY <1>3, <2>1, <2>a, <2>2, <2>3, <2>4, Zenon DEF Crash, TypeOK, durable, published
<1>5. /\ requested'[n] = 0 /\ latest'[n] = dbLatest[n] /\ next'[n] = dbLatest[n] + 1
      /\ \A m \in Nodes : m # n => /\ requested'[m] = requested[m] /\ latest'[m] = latest[m]
                                    /\ next'[m] = next[m] /\ ready'[m] = ready[m]
  BY DEF Crash, TypeOK
<1>6. Waiting'
  BY <1>3, <1>5, Zenon DEF Waiting
<1>7. NoHoles'
  BY <1>5, Zenon DEF NoHoles, Crash, durable
<1> QED
  BY <1>1, <1>4, <1>6, <1>7

\* The slots of a run of the ordering queue.
LEMMA RunInSlots ==
    ASSUME NEW x \in 1 .. MaxSlot + 1, NEW m \in x .. MaxSlot + 1
    PROVE  m \in 1 .. MaxSlot + 1 /\ x .. m - 1 \subseteq Slots
  BY ScheduleAssumption DEF Slots

\* The slots a node has asked for and passed.
LEMMA PassedInSlots ==
    ASSUME NEW x \in 1 .. MaxSlot, NEW y \in 1 .. MaxSlot + 1, NEW s \in x .. y - 1
    PROVE  s \in Slots
  BY ScheduleAssumption DEF Slots

LEMMA RunSplits ==
    ASSUME NEW x \in Nat, NEW r \in Nat, NEW m \in Nat, NEW s \in r .. m - 1
    PROVE  s \in r .. x - 1 \/ s \in x .. m - 1
  OBVIOUS

LEMMA IntervalsAreNat ==
    ASSUME NEW x \in 1 .. MaxSlot + 1
    PROVE  x \in Nat
  BY ScheduleAssumption

LEMMA AskedIsPositive ==
    ASSUME NEW x \in 0 .. MaxSlot, x # 0
    PROVE  x \in 1 .. MaxSlot /\ x \in Nat
  BY ScheduleAssumption

\* The ordering queue at n takes the block c of slot k from a peer: what it
\* stores comes from the leader of the slot, through the peer or the queue, or
\* is a filler for an own slot.
LEMMA OrderingKeeps ==
    ASSUME Inv, NEW n \in Nodes, NEW p \in Nodes, NEW k \in Slots,
           blocks[p][k] # NoBlock, requested[n] # 0,
           AddBlockToOrderingQueue(n, k, blocks[p][k]),
           stream' \in [Nodes -> [peer : Nodes, slot : 1 .. MaxSlot + 1, to : 0 .. MaxSlot]],
           \A m \in Nodes : stream'[m].peer = stream[m].peer,
           UNCHANGED <<votes, world, requested, answered, proposed, ballots, crashes>>
    PROVE  Inv'
<1> USE DEF Inv
<1> DEFINE q == [queue[n] EXCEPT ![k] = blocks[p][k]]
<1>1. PICK m \in next[n] .. MaxSlot + 1 :
         /\ RunStops(n, q, m)
         /\ next' = [next EXCEPT ![n] = m]
         /\ queue' = [queue EXCEPT ![n] = [j \in Slots |-> IF j \in next[n] .. m - 1
                                                          THEN NoBlock ELSE q[j]]]
         /\ StoreRun(n, q, {j \in next[n] .. m - 1 : blocks[n][j] = NoBlock})
         /\ FinalizeRun(n, {j \in next[n] .. m - 1 : blocks[n][j] = NoBlock})
         /\ fillers' = fillers \cup {j \in next[n] .. m - 1 : q[j] = NoBlock}
         /\ ready' = [ready EXCEPT ![n] = @ \/ (next[n] .. m - 1 # {} /\ world[n] < m)]
  BY Zenon DEF AddBlockToOrderingQueue
<1>2. PICK run : run = next[n] .. m - 1
  BY Zenon
<1>3. PICK fresh : fresh = {j \in run : blocks[n][j] = NoBlock}
  BY Zenon
<1>4. /\ next[n] \in 1 .. MaxSlot + 1 /\ m \in 1 .. MaxSlot + 1 /\ MaxSlot \in Nat
      /\ run \subseteq Slots /\ fresh \subseteq run
  <2>1. next[n] \in 1 .. MaxSlot + 1 /\ MaxSlot \in Nat
    BY ScheduleAssumption DEF TypeOK
  <2>2. PICK x \in 1 .. MaxSlot + 1 : x = next[n]
    BY <2>1, Zenon
  <2>3. m \in x .. MaxSlot + 1
    BY <2>2, Zenon
  <2>4. m \in 1 .. MaxSlot + 1 /\ x .. m - 1 \subseteq Slots
    BY <2>3, RunInSlots, Zenon
  <2>5. run \subseteq Slots /\ fresh \subseteq run
    BY <1>2, <1>3, <2>2, <2>4, Zenon
  <2> QED
    BY <2>1, <2>4, <2>5, Zenon
<1>5. q \in [Slots -> Contents] /\ \A j \in Slots : q[j] = IF j = k THEN blocks[p][k] ELSE queue[n][j]
  BY DEF TypeOK
<1>6. \A j \in Slots : /\ q[j] \in Proposals => q[j] = blocks[LeaderOf[j]][j]
                       /\ q[j] = Empty => j \in fillers
  <2>1. \A j \in Slots : q[j] = blocks[p][j] \/ q[j] = queue[n][j]
    BY <1>5, Zenon
  <2>2. \A j \in Slots :
           /\ blocks[p][j] \in Proposals => blocks[p][j] = blocks[LeaderOf[j]][j]
           /\ queue[n][j] \in Proposals => queue[n][j] = blocks[LeaderOf[j]][j]
    BY Zenon DEF Origin
  <2>3. \A j \in Slots : blocks[p][j] = Empty \/ queue[n][j] = Empty => j \in fillers
    BY Zenon DEF Filled
  <2> HIDE DEF q
  <2>4. ASSUME NEW j \in Slots
        PROVE  /\ q[j] \in Proposals => q[j] = blocks[LeaderOf[j]][j]
               /\ q[j] = Empty => j \in fillers
    <3>1. CASE q[j] = blocks[p][j]
      BY <2>2, <2>3, <3>1, Zenon
    <3>2. CASE q[j] = queue[n][j]
      BY <2>2, <2>3, <3>2, Zenon
    <3> QED
      BY <2>1, <3>1, <3>2, Zenon
  <2> QED
    BY <2>4, Zenon
<1> HIDE DEF q
<1>7. /\ blocks' \in [Nodes -> [Slots -> Contents]]
      /\ \A l \in Nodes, j \in Slots :
            blocks'[l][j] = IF l # n \/ j \notin fresh THEN blocks[l][j]
                            ELSE IF q[j] = NoBlock THEN Empty ELSE q[j]
  <2>1. blocks' = [blocks EXCEPT ![n] =
                      [j \in Slots |-> IF j \notin fresh THEN blocks[n][j]
                                       ELSE IF q[j] = NoBlock THEN Empty ELSE q[j]]]
    BY <1>1, <1>2, <1>3, Zenon DEF StoreRun, TypeOK
  <2>2. [j \in Slots |-> IF j \notin fresh THEN blocks[n][j]
                         ELSE IF q[j] = NoBlock THEN Empty ELSE q[j]] \in [Slots -> Contents]
    BY <1>5, SMTT(40) DEF TypeOK, Contents
  <2> QED
    BY <2>1, <2>2 DEF TypeOK
<1>8. Kept
  <2>1. \A j \in fresh : blocks[n][j] = NoBlock
    BY <1>3, ZenonT(40)
  <2>2. ASSUME NEW l \in Nodes, NEW j \in Slots, blocks[l][j] # NoBlock
        PROVE  blocks'[l][j] = blocks[l][j]
    BY <1>7, <2>1, <2>2, ZenonT(40)
  <2> QED
    BY <2>2, Zenon DEF Kept
<1>9. /\ queue' \in [Nodes -> [Slots -> Contents]]
      /\ \A l \in Nodes, j \in Slots :
            queue'[l][j] \in {queue[l][j], NoBlock} \/ (l = n /\ queue'[l][j] = q[j])
  <2>1. queue' = [queue EXCEPT ![n] = [j \in Slots |-> IF j \in run THEN NoBlock ELSE q[j]]]
    BY <1>1, <1>2, Zenon
  <2>2. [j \in Slots |-> IF j \in run THEN NoBlock ELSE q[j]] \in [Slots -> Contents]
    BY <1>5, Zenon DEF Contents
  <2> QED
    BY <2>1, <2>2, Zenon DEF TypeOK
<1>10. fillers' = fillers \cup {j \in run : q[j] = NoBlock}
  BY <1>1, <1>2, Zenon
<1>11. \A j \in Slots : LeaderOf[j] \in Nodes
  BY ScheduleAssumption, Zenon
<1>12. ASSUME NEW j \in Slots, NEW d \in Proposals, d = blocks[LeaderOf[j]][j]
       PROVE  d = blocks'[LeaderOf[j]][j]
  BY <1>8, <1>11, <1>12, ProposalAssumption DEF Kept
<1>13. Origin'
  <2>1. ASSUME NEW j \in Slots, NEW l \in Nodes, blocks'[l][j] \in Proposals
        PROVE  blocks'[l][j] = blocks'[LeaderOf[j]][j]
    <3>1. CASE blocks'[l][j] = blocks[l][j]
      BY <1>12, <2>1, <3>1, Zenon DEF Origin
    <3>2. CASE blocks'[l][j] = q[j]
      BY <1>6, <1>12, <2>1, <3>2
    <3>3. CASE blocks'[l][j] = Empty
      BY <2>1, <3>3, ProposalAssumption
    <3> QED
      BY <1>7, <3>1, <3>2, <3>3, Zenon
  <2>2. ASSUME NEW j \in Slots, NEW l \in Nodes, queue'[l][j] \in Proposals
        PROVE  queue'[l][j] = blocks'[LeaderOf[j]][j]
    <3>1. CASE queue'[l][j] = queue[l][j]
      BY <1>12, <2>2, <3>1, Zenon DEF Origin
    <3>2. CASE queue'[l][j] = q[j]
      BY <1>6, <1>12, <2>2, <3>2, Zenon
    <3>3. CASE queue'[l][j] = NoBlock
      BY <2>2, <3>3, ProposalAssumption
    <3> QED
      BY <1>9, <3>1, <3>2, <3>3, Zenon
  <2>3. ASSUME NEW j \in Slots, NEW d \in Proposals, <<j, d>> \in proposed
        PROVE  d = blocks'[LeaderOf[j]][j]
    BY <1>12, <2>3 DEF Origin
  <2> QED
    BY <2>1, <2>2, <2>3, Zenon DEF Origin
<1>14. Filled'
  <2>1. ASSUME NEW l \in Nodes, NEW j \in Slots, blocks'[l][j] = Empty
        PROVE  j \in fillers'
    <3>1. CASE blocks'[l][j] = blocks[l][j]
      BY <1>10, <2>1, <3>1, Zenon DEF Filled
    <3>2. CASE blocks'[l][j] = q[j]
      BY <1>6, <1>10, <2>1, <3>2
    <3>3. CASE j \in fresh /\ q[j] = NoBlock
      BY <1>4, <1>10, <3>3
    <3> QED
      BY <1>7, <3>1, <3>2, <3>3, Zenon
  <2>2. ASSUME NEW l \in Nodes, NEW j \in Slots, queue'[l][j] = Empty
        PROVE  j \in fillers'
    <3>1. CASE queue'[l][j] = queue[l][j]
      BY <1>10, <2>2, <3>1, Zenon DEF Filled
    <3>2. CASE queue'[l][j] = q[j]
      BY <1>6, <1>10, <2>2, <3>2
    <3>3. queue'[l][j] # NoBlock
      BY <2>2 DEF Empty, NoBlock
    <3> QED
      BY <1>9, <3>1, <3>2, <3>3
  <2> QED
    BY <2>1, <2>2, Zenon DEF Filled
<1>15. VoterStored'
  BY <1>8, StoredStays, Zenon DEF VoterStored
<1>16. /\ how' \in [Nodes -> [Slots -> {"none", "vote", "sync"}]]
       /\ latest' \in [Nodes -> 0 .. MaxSlot]
       /\ dbLatest' \in [Nodes -> 0 .. MaxSlot]
       /\ \A l \in Nodes, j \in Slots : how'[l][j] = "vote" => how[l][j] = "vote"
       /\ \A l \in Nodes : l # n => latest'[l] = latest[l]
  <2>1. CASE UNCHANGED <<how, latest, dbLatest>>
    BY <2>1 DEF TypeOK
  <2>2. CASE \E t \in fresh :
               /\ how' = [how EXCEPT ![n] = [s \in Slots |-> IF s \in fresh THEN "sync" ELSE @[s]]]
               /\ latest' = [latest EXCEPT ![n] = t]
               /\ dbLatest' = [dbLatest EXCEPT ![n] =
                                  IF t > latest[n] \/ fresh # {t} THEN t ELSE @]
    <3>1. PICK t \in fresh :
               /\ how' = [how EXCEPT ![n] = [s \in Slots |-> IF s \in fresh THEN "sync" ELSE @[s]]]
               /\ latest' = [latest EXCEPT ![n] = t]
               /\ dbLatest' = [dbLatest EXCEPT ![n] =
                                  IF t > latest[n] \/ fresh # {t} THEN t ELSE @]
      BY <2>2, Zenon
    <3>2. t \in 0 .. MaxSlot
      BY <1>4, SlotsInRange, Zenon
    <3>3. /\ latest' \in [Nodes -> 0 .. MaxSlot]
          /\ dbLatest' \in [Nodes -> 0 .. MaxSlot]
          /\ \A l \in Nodes : l # n => latest'[l] = latest[l]
      BY <3>1, <3>2, Zenon DEF TypeOK
    <3>4. /\ how' \in [Nodes -> [Slots -> {"none", "vote", "sync"}]]
          /\ \A l \in Nodes, j \in Slots : how'[l][j] = "vote" => how[l][j] = "vote"
      BY <3>1, Zenon DEF TypeOK
    <3> QED
      BY <3>3, <3>4, Zenon
  <2>3. FinalizeRun(n, fresh)
    BY <1>1, <1>2, <1>3, Zenon
  <2>4. \/ UNCHANGED <<how, latest, dbLatest>>
        \/ \E t \in fresh :
              /\ how' = [how EXCEPT ![n] = [s \in Slots |-> IF s \in fresh THEN "sync" ELSE @[s]]]
              /\ latest' = [latest EXCEPT ![n] = t]
              /\ dbLatest' = [dbLatest EXCEPT ![n] =
                                 IF t > latest[n] \/ fresh # {t} THEN t ELSE @]
    BY <2>3, Zenon DEF FinalizeRun
  <2> QED
    BY <2>1, <2>2, <2>4, Zenon
<1>17. QuorumStored'
  <2> SUFFICES ASSUME NEW l \in Nodes, NEW j \in Slots, how'[l][j] = "vote"
               PROVE  blocks'[l][j] # NoBlock /\ Cardinality(StoredBy(j)') >= Threshold
    BY Zenon DEF QuorumStored
  <2>1. blocks[l][j] # NoBlock /\ Cardinality(StoredBy(j)) >= Threshold
    BY <1>16, Zenon DEF QuorumStored
  <2> QED
    <3>1. blocks'[l][j] # NoBlock
      BY <1>8, <2>1, Zenon DEF Kept
    <3>2. Cardinality(StoredBy(j)') >= Cardinality(StoredBy(j))
          /\ Cardinality(StoredBy(j)) \in Nat /\ Cardinality(StoredBy(j)') \in Nat
      BY <1>8, StoredGrows, Zenon
    <3>3. Cardinality(StoredBy(j)') >= Threshold
      BY <2>1, <3>2, StaysReached, ThresholdType, Zenon
    <3> QED
      BY <3>1, <3>3, Zenon
<1>18. /\ next' \in [Nodes -> 1 .. MaxSlot + 1]
       /\ next'[n] = m
       /\ ready' \in [Nodes -> BOOLEAN]
       /\ \A l \in Nodes : l # n => next'[l] = next[l] /\ ready'[l] = ready[l]
  <2>1. next' \in [Nodes -> 1 .. MaxSlot + 1] /\ next'[n] = m
        /\ \A l \in Nodes : l # n => next'[l] = next[l]
    BY <1>1, <1>4, Zenon DEF TypeOK
  <2>2. ready' \in [Nodes -> BOOLEAN] /\ \A l \in Nodes : l # n => ready'[l] = ready[l]
    BY <1>1, Zenon DEF TypeOK
  <2> QED
    BY <2>1, <2>2, Zenon
<1>19. TypeOK'
  <2>1. fillers' \subseteq Slots
    BY <1>4, <1>10, Zenon DEF TypeOK
  <2> QED
    BY <1>7, <1>9, <1>16, <1>18, <2>1, Zenon DEF TypeOK
<1>20. Waiting'
  BY <1>16, <1>18, Zenon DEF Waiting
<1>21. NoHoles'
  <2> SUFFICES ASSUME NEW l \in Nodes, requested[l] # 0, NEW s \in requested[l] .. next'[l] - 1
               PROVE  blocks'[l][s] # NoBlock
    BY Zenon DEF NoHoles
  <2>1. requested[l] \in 1 .. MaxSlot /\ requested[l] \in Nat /\ next'[l] \in 1 .. MaxSlot + 1
    <3>1. requested[l] \in 0 .. MaxSlot
      BY Zenon DEF TypeOK
    <3>2. PICK x \in 0 .. MaxSlot : x = requested[l]
      BY <3>1, Zenon
    <3>3. x \in 1 .. MaxSlot /\ x \in Nat
      BY <3>2, AskedIsPositive, Zenon
    <3>4. next'[l] \in 1 .. MaxSlot + 1
      BY <1>18, Zenon
    <3> QED
      BY <3>2, <3>3, <3>4, Zenon
  <2>2. s \in Slots
    BY <2>1, PassedInSlots, Zenon
  <2>3. CASE s \in requested[l] .. next[l] - 1
    BY <1>8, <2>2, <2>3 DEF NoHoles, Kept
  <2>4. CASE l = n /\ s \in run
    BY <1>3, <1>7, <2>2, <2>4, Zenon DEF Empty, NoBlock
  <2>5. CASE l = n
    <3>1. next[n] \in Nat /\ m \in Nat /\ requested[n] \in Nat
      BY <1>4, <2>1, <2>5, IntervalsAreNat, Zenon
    <3>2. s \in requested[n] .. m - 1
      BY <1>18, <2>5, Zenon
    <3>3. s \in requested[n] .. next[n] - 1 \/ s \in next[n] .. m - 1
      BY <3>1, <3>2, RunSplits, Zenon
    <3> QED
      BY <1>2, <2>3, <2>4, <2>5, <3>3, Zenon
  <2>6. CASE l # n
    BY <1>18, <2>3, <2>6
  <2> QED
    BY <2>5, <2>6, Zenon
<1> QED
  BY <1>13, <1>14, <1>15, <1>17, <1>19, <1>20, <1>21, Zenon

LEMMA StreamBlockKeeps ==
    ASSUME Inv, NEW n \in Nodes, StreamBlock(n)
    PROVE  Inv'
<1> DEFINE p == stream[n].peer
<1> DEFINE k == stream[n].slot
<1> DEFINE r == [peer |-> p, slot |-> k + 1, to |-> stream[n].to]
<1>1. p \in Nodes /\ k \in 1 .. MaxSlot + 1 /\ stream[n].to \in 0 .. MaxSlot
  BY StreamField DEF Inv
<1>2. k \in Slots /\ k + 1 \in 1 .. MaxSlot + 1
  BY <1>1, ScheduleAssumption DEF StreamBlock, Slots
<1>3. r \in [peer : Nodes, slot : 1 .. MaxSlot + 1, to : 0 .. MaxSlot]
  BY <1>1, <1>2, Zenon
<1>4. p # n /\ requested[n] # 0
  BY DEF StreamBlock, Inv, Waiting
<1>5. stream' = [stream EXCEPT ![n] = r]
  <2>1. stream' = [stream EXCEPT ![n] = [stream[n] EXCEPT !.slot = k + 1]]
    BY DEF StreamBlock, Inv, TypeOK
  <2>2. stream[n] \in [peer : Nodes, slot : 1 .. MaxSlot + 1, to : 0 .. MaxSlot]
    BY DEF Inv, TypeOK
  <2>3. [stream[n] EXCEPT !.slot = k + 1] = r
    BY <2>2
  <2> QED
    BY <2>1, <2>3, Zenon
<1>6. UNCHANGED <<votes, world, requested, answered, proposed, ballots, crashes>>
  BY DEF StreamBlock
<1>7. CASE UNCHANGED <<durable, latest, ready, next, queue, fillers>>
  <2>1. answered' \in [Nodes -> SUBSET Nodes]
    BY <1>6 DEF Inv, TypeOK
  <2>2. UNCHANGED <<durable, latest, votes, world, ready, requested, next, queue, published,
                    crashes>>
    BY <1>6, <1>7 DEF published
  <2>3. r.peer # n => requested[n] # 0
    BY <1>4
  <2> HIDE DEF r, p, k
  <2> QED
    BY <1>3, <1>5, <2>1, <2>2, <2>3, StreamMoves, Zenon
<1>8. CASE blocks[p][k] # NoBlock /\ AddBlockToOrderingQueue(n, k, blocks[p][k])
  <2>1. PICK S : S = [peer : Nodes, slot : 1 .. MaxSlot + 1, to : 0 .. MaxSlot]
    BY Zenon
  <2>2. stream \in [Nodes -> S] /\ r \in S
    BY <1>3, <2>1, Zenon DEF Inv, TypeOK
  <2>3. r.peer = p
    BY Zenon
  <2> HIDE DEF r
  <2>4. stream' \in [Nodes -> S] /\ \A m \in Nodes : stream'[m] = IF m = n THEN r ELSE stream[m]
    BY <1>5, <2>2
  <2>5. \A m \in Nodes : stream'[m].peer = stream[m].peer
    BY <2>3, <2>4
  <2> HIDE DEF p, k
  <2> QED
    BY <1>1, <1>2, <1>4, <1>6, <1>8, <2>1, <2>4, <2>5, OrderingKeeps, Zenon
<1> QED
  BY <1>7, <1>8 DEF StreamBlock

-----------------------------------------------------------------------------

LEMMA NextInv == Inv /\ [Next]_vars => Inv'
<1> SUFFICES ASSUME Inv, [Next]_vars PROVE Inv'
  OBVIOUS
<1>1. CASE UNCHANGED vars
  BY <1>1, ZenonT(40) DEF vars, durable, syncing, published, Inv, TypeOK, Origin, Filled, VoterStored,
              QuorumStored, StoredBy, Waiting, NoHoles
<1>2. ASSUME NEW n \in Nodes, NodeNext(n) PROVE Inv'
  <2>1. ASSUME NEW s \in Slots, NEW c \in Proposals, BroadcastBlock(n, s, c) PROVE Inv'
    BY <2>1, BroadcastKeeps
  <2>2. ASSUME NEW s \in Slots, NEW c \in Proposals, OnBlockReceived(n, s, c) PROVE Inv'
    BY <2>2, OnBlockReceivedKeeps
  <2>3. ASSUME NEW v \in Nodes, NEW s \in Slots, OnVoteReceived(n, v, s) PROVE Inv'
    BY <2>3, OnVoteReceivedKeeps
  <2>4. ASSUME NEW p \in Nodes, OnLatestSlotReceived(n, p) PROVE Inv'
    BY <2>4, OnLatestSlotReceivedKeeps
  <2>5. CASE StartFromLocal(n)
    BY <2>5, StartFromLocalKeeps
  <2>6. CASE RequestBlockSync(n)
    BY <2>6, RequestBlockSyncKeeps
  <2>7. ASSUME NEW p \in Nodes, SendBlocksOverStream(n, p) PROVE Inv'
    BY <2>7, SendBlocksOverStreamKeeps
  <2>8. CASE StreamBlock(n)
    BY <2>8, StreamBlockKeeps
  <2>9. CASE NextWindow(n)
    BY <2>9, NextWindowKeeps
  <2>10. CASE StreamEnd(n)
    BY <2>10, StreamEndKeeps
  <2>11. ASSUME NEW s \in Slots, OnEmptyBlockReceived(n, s) PROVE Inv'
    BY <2>11, OnEmptyBlockReceivedKeeps
  <2>12. CASE Crash(n)
    BY <2>12, CrashKeeps
  <2> QED
    BY <1>2, <2>1, <2>2, <2>3, <2>4, <2>5, <2>6, <2>7, <2>8, <2>9, <2>10, <2>11, <2>12
       DEF NodeNext
<1> QED
  BY <1>1, <1>2 DEF Next

LEMMA InvAlways == Spec => []Inv
  BY InitInv, NextInv, PTL DEF Spec

\* Every variable of every node keeps its type: a request starts at a slot that
\* exists, and the slots of a stream and of the ordering queue stay in range.
THEOREM ClusterTypeCorrect == Spec => []TypeOK
<1>1. Inv => TypeOK
  BY DEF Inv
<1> QED
  BY <1>1, InvAlways, PTL

\* No two nodes ever store different proposals of one slot, whatever is lost,
\* streamed or restarted (BroadcastBlockWithProcessing stores before it publishes,
\* AddBlockPending never replaces a block).
THEOREM OneProposalAlways == Spec => []OneProposalPerSlot
<1>1. Inv => OneProposalPerSlot
  BY DEF Inv, Origin, OneProposalPerSlot
<1> QED
  BY <1>1, InvAlways, PTL

\* A block finalized by votes is stored by a quorum of nodes, unless its leader
\* made a filler for the slot (ProcessVote counts a vote for the slot, and a node
\* votes after AddBlockPending).
THEOREM QuorumAlwaysHolds == Spec => []QuorumHoldsBlock
<1>1. ASSUME Inv, NEW n \in Nodes, NEW s \in Slots \ fillers, how[n][s] = "vote"
      PROVE  Cardinality(Holders(n, s)) >= Threshold
  <2>1. \A m \in Nodes : blocks[m][s] # NoBlock => blocks[m][s] \in Proposals
    BY <1>1 DEF Inv, TypeOK, Filled, Contents
  <2>2. \A m \in Nodes : blocks[m][s] # NoBlock => blocks[m][s] = blocks[LeaderOf[s]][s]
    BY <1>1, <2>1 DEF Inv, Origin
  <2>3. blocks[n][s] # NoBlock /\ Cardinality(StoredBy(s)) >= Threshold
    BY <1>1 DEF Inv, QuorumStored
  <2>4. Holders(n, s) = StoredBy(s)
    BY <2>2, <2>3 DEF Holders, StoredBy
  <2> QED
    BY <2>3, <2>4
<1>2. Inv => QuorumHoldsBlock
  BY <1>1 DEF QuorumHoldsBlock
<1> QED
  BY <1>2, InvAlways, PTL

\* Behind the slot its ordering queue waits for, a node that asked for blocks has
\* one for every slot it asked for (processConsecutiveBlocks).
THEOREM NeverAHole == Spec => []NoHoles
<1>1. Inv => NoHoles
  BY DEF Inv
<1> QED
  BY <1>1, InvAlways, PTL

-----------------------------------------------------------------------------
\* Agreement

\* What is finalized is stored.
DecidedStored == \A n \in Nodes, s \in Slots : how[n][s] # "none" => blocks[n][s] # NoBlock

\* What a step of node n may do to finality: it finalizes, at n alone, slots that
\* were not final, and only the leader's own broadcast gives a slot its proposal.
Steady(n) ==
    /\ Kept
    /\ \A m \in Nodes, s \in Slots :
         m # n \/ how[m][s] # "none" => how'[m][s] = how[m][s]
    /\ \A m \in Nodes, s \in Slots : how'[m][s] # "none" => blocks'[m][s] # NoBlock
    /\ fillers \subseteq fillers'
    /\ \E t : \A s \in Slots : s # t /\ blocks'[LeaderOf[s]][s] \in Proposals
                               => blocks'[LeaderOf[s]][s] = blocks[LeaderOf[s]][s]

LEMMA SteadyIfUnchanged ==
    ASSUME DecidedStored, NEW n \in Nodes, UNCHANGED <<blocks, how, fillers>> PROVE Steady(n)
  BY Zenon DEF Steady, Kept, DecidedStored

\* Counting a vote finalizes at most the one slot, which has a block.
LEMMA VoteFinalizes ==
    ASSUME TypeOK, DecidedStored, Kept, NEW n \in Nodes, NEW v \in Nodes, NEW s \in Slots,
           ProcessVote(n, v, s)
    PROVE  /\ \A m \in Nodes, j \in Slots :
                m # n \/ how[m][j] # "none" => how'[m][j] = how[m][j]
           /\ \A m \in Nodes, j \in Slots : how'[m][j] # "none" => blocks'[m][j] # NoBlock
<1>1. \A m \in Nodes, j \in Slots : blocks[m][j] # NoBlock => blocks'[m][j] # NoBlock
  BY StoredStays, Zenon
<1>2. CASE UNCHANGED how
  BY <1>1, <1>2, Zenon DEF DecidedStored
<1>3. CASE /\ blocks'[n][s] # NoBlock /\ how[n][s] = "none"
           /\ how' = [how EXCEPT ![n][s] = "vote"]
  <2>1. \A m \in Nodes, j \in Slots :
           how'[m][j] = IF m = n /\ j = s THEN "vote" ELSE how[m][j]
    BY <1>3 DEF TypeOK
  <2> QED
    <3> SUFFICES ASSUME NEW m \in Nodes, NEW j \in Slots
                 PROVE  /\ m # n \/ how[m][j] # "none" => how'[m][j] = how[m][j]
                        /\ how'[m][j] # "none" => blocks'[m][j] # NoBlock
      BY Zenon
    <3>1. CASE m = n /\ j = s
      BY <1>3, <2>1, <3>1
    <3>2. CASE ~ (m = n /\ j = s)
      <4>1. how'[m][j] = how[m][j]
        BY <2>1, <3>2, Zenon
      <4> QED
        BY <1>1, <4>1, Zenon DEF DecidedStored
    <3> QED
      BY <3>1, <3>2
<1> QED
  BY <1>2, <1>3, Zenon DEF ProcessVote

LEMMA BroadcastSteady ==
    ASSUME Inv, DecidedStored, NEW n \in Nodes, NEW s \in Slots, NEW c \in Proposals,
           BroadcastBlock(n, s, c)
    PROVE  Steady(n)
<1>1. TypeOK /\ c \in Contents
  BY DEF Inv, Contents
<1>2. /\ \A m \in Nodes, j \in Slots :
           blocks'[m][j] = IF m = n /\ j = s THEN c ELSE blocks[m][j]
      /\ Kept
  <2>1. AddBlockPending(n, s, c)
    BY Zenon DEF BroadcastBlock
  <2> QED
    BY <1>1, <2>1, AddBlock
<1>3. /\ \A m \in Nodes, j \in Slots :
           m # n \/ how[m][j] # "none" => how'[m][j] = how[m][j]
      /\ \A m \in Nodes, j \in Slots : how'[m][j] # "none" => blocks'[m][j] # NoBlock
  <2>1. CASE OwnVote(n, s)
    BY <1>1, <1>2, <2>1, VoteFinalizes, Zenon DEF OwnVote
  <2>2. CASE UNCHANGED how
    BY <1>2, <2>2, StoredStays, Zenon DEF DecidedStored
  <2> QED
    BY <2>1, <2>2, Zenon DEF BroadcastBlock
<1>4. \A j \in Slots : j # s => blocks'[LeaderOf[j]][j] = blocks[LeaderOf[j]][j]
  <2>1. \A j \in Slots : LeaderOf[j] \in Nodes
    BY ScheduleAssumption
  <2> QED
    BY <1>2, <2>1, Zenon
<1>5. fillers' = fillers
  BY Zenon DEF BroadcastBlock
<1> QED
  BY <1>2, <1>3, <1>4, <1>5, Zenon DEF Steady

LEMMA OnBlockReceivedSteady ==
    ASSUME Inv, DecidedStored, NEW n \in Nodes, NEW s \in Slots, NEW c \in Proposals,
           OnBlockReceived(n, s, c)
    PROVE  Steady(n)
<1>1. TypeOK /\ c \in Contents
  BY DEF Inv, Contents
<1>2. /\ \A m \in Nodes, j \in Slots :
           blocks'[m][j] = IF m = n /\ j = s THEN c ELSE blocks[m][j]
      /\ Kept
  <2>1. AddBlockPending(n, s, c)
    BY Zenon DEF OnBlockReceived
  <2> QED
    BY <1>1, <2>1, AddBlock
<1>3. /\ \A m \in Nodes, j \in Slots :
           m # n \/ how[m][j] # "none" => how'[m][j] = how[m][j]
      /\ \A m \in Nodes, j \in Slots : how'[m][j] # "none" => blocks'[m][j] # NoBlock
  BY <1>1, <1>2, VoteFinalizes, Zenon DEF OnBlockReceived, OwnVote
<1>4. \A j \in Slots : j # s => blocks'[LeaderOf[j]][j] = blocks[LeaderOf[j]][j]
  <2>1. \A j \in Slots : LeaderOf[j] \in Nodes
    BY ScheduleAssumption
  <2> QED
    BY <1>2, <2>1, Zenon
<1>5. fillers' = fillers
  BY Zenon DEF OnBlockReceived
<1> QED
  BY <1>2, <1>3, <1>4, <1>5, Zenon DEF Steady

LEMMA OnVoteReceivedSteady ==
    ASSUME Inv, DecidedStored, NEW n \in Nodes, NEW v \in Nodes, NEW s \in Slots,
           OnVoteReceived(n, v, s)
    PROVE  Steady(n)
<1>1. blocks' = blocks /\ fillers' = fillers /\ Kept /\ TypeOK
  BY Zenon DEF OnVoteReceived, published, Kept, Inv
<1>2. /\ \A m \in Nodes, j \in Slots :
           m # n \/ how[m][j] # "none" => how'[m][j] = how[m][j]
      /\ \A m \in Nodes, j \in Slots : how'[m][j] # "none" => blocks'[m][j] # NoBlock
  BY <1>1, VoteFinalizes, Zenon DEF OnVoteReceived
<1> QED
  BY <1>1, <1>2, Zenon DEF Steady

LEMMA OnEmptyBlockReceivedSteady ==
    ASSUME Inv, DecidedStored, NEW n \in Nodes, NEW s \in Slots, OnEmptyBlockReceived(n, s)
    PROVE  Steady(n)
<1>1. TypeOK /\ Empty \in Contents
  BY DEF Inv, Contents
<1>2. /\ \A m \in Nodes, j \in Slots :
           blocks'[m][j] = IF m = n /\ j = s THEN Empty ELSE blocks[m][j]
      /\ Kept
  <2>1. AddBlockPending(n, s, Empty)
    BY Zenon DEF OnEmptyBlockReceived
  <2> QED
    BY <1>1, <2>1, AddBlock
<1>3. how' = how /\ fillers' = fillers
  BY Zenon DEF OnEmptyBlockReceived, published
<1>4. \A j \in Slots : j # s => blocks'[LeaderOf[j]][j] = blocks[LeaderOf[j]][j]
  <2>1. \A j \in Slots : LeaderOf[j] \in Nodes
    BY ScheduleAssumption
  <2> QED
    BY <1>2, <2>1, Zenon
<1> QED
  BY <1>2, <1>3, <1>4, StoredStays, Zenon DEF Steady, DecidedStored

\* The ordering queue finalizes the slots it stores, which had no block before.  A
\* proposal it brings for an own slot is one the leader has stored before.
LEMMA OrderingSteady ==
    ASSUME Inv, DecidedStored, NEW n \in Nodes, NEW p \in Nodes, NEW k \in Slots,
           AddBlockToOrderingQueue(n, k, blocks[p][k])
    PROVE  Steady(n)
<1> DEFINE q == [queue[n] EXCEPT ![k] = blocks[p][k]]
<1>1. PICK m \in next[n] .. MaxSlot + 1 :
         /\ StoreRun(n, q, {j \in next[n] .. m - 1 : blocks[n][j] = NoBlock})
         /\ FinalizeRun(n, {j \in next[n] .. m - 1 : blocks[n][j] = NoBlock})
         /\ fillers' = fillers \cup {j \in next[n] .. m - 1 : q[j] = NoBlock}
  BY Zenon DEF AddBlockToOrderingQueue
<1>2. PICK fresh : fresh = {j \in next[n] .. m - 1 : blocks[n][j] = NoBlock}
  BY Zenon
<1>3. \A j \in fresh : blocks[n][j] = NoBlock
  BY <1>2, Zenon
<1>4. \A j \in Slots : q[j] = blocks[p][j] \/ q[j] = queue[n][j]
  BY DEF Inv, TypeOK
<1>5. \A j \in Slots : q[j] \in Proposals => q[j] = blocks[LeaderOf[j]][j]
  <2> HIDE DEF q
  <2>1. ASSUME NEW j \in Slots, q[j] \in Proposals PROVE q[j] = blocks[LeaderOf[j]][j]
    <3>1. /\ blocks[p][j] \in Proposals => blocks[p][j] = blocks[LeaderOf[j]][j]
          /\ queue[n][j] \in Proposals => queue[n][j] = blocks[LeaderOf[j]][j]
      BY Zenon DEF Inv, Origin
    <3> QED
      BY <1>4, <2>1, <3>1, Zenon
  <2> QED
    BY <2>1, Zenon
<1> HIDE DEF q
<1>6. \A l \in Nodes, j \in Slots :
         blocks'[l][j] = IF l # n \/ j \notin fresh THEN blocks[l][j]
                         ELSE IF q[j] = NoBlock THEN Empty ELSE q[j]
  BY <1>1, <1>2 DEF StoreRun, Inv, TypeOK
<1>7. Kept
  <2>1. ASSUME NEW l \in Nodes, NEW j \in Slots, blocks[l][j] # NoBlock
        PROVE  blocks'[l][j] = blocks[l][j]
    <3>1. l # n \/ j \notin fresh
      BY <1>3, <2>1, Zenon
    <3> QED
      BY <1>6, <3>1, Zenon
  <2> QED
    BY <2>1, Zenon DEF Kept
<1>8. \A j \in Slots : j \in fresh => blocks'[n][j] # NoBlock /\ how[n][j] = "none"
  <2>1. ASSUME NEW j \in Slots, j \in fresh PROVE blocks'[n][j] # NoBlock /\ how[n][j] = "none"
    <3>1. blocks'[n][j] = IF q[j] = NoBlock THEN Empty ELSE q[j]
      BY <1>6, <2>1, Zenon
    <3>2. Empty # NoBlock
      BY DEF Empty, NoBlock
    <3>3. how[n][j] = "none"
      BY <1>3, <2>1, Zenon DEF DecidedStored
    <3> QED
      BY <3>1, <3>2, <3>3, Zenon
  <2> QED
    BY <2>1, Zenon
<1>9. \A l \in Nodes, j \in Slots :
         how'[l][j] = how[l][j] \/ (l = n /\ j \in fresh)
  <2>1. CASE UNCHANGED how
    BY <2>1, Zenon
  <2>2. CASE how' = [how EXCEPT ![n] = [s \in Slots |-> IF s \in fresh THEN "sync"
                                                        ELSE how[n][s]]]
    BY <2>2 DEF Inv, TypeOK
  <2> QED
    BY <1>1, <1>2, <2>1, <2>2, Zenon DEF FinalizeRun
<1>10. \A l \in Nodes, j \in Slots :
         /\ l # n \/ how[l][j] # "none" => how'[l][j] = how[l][j]
         /\ how'[l][j] # "none" => blocks'[l][j] # NoBlock
  BY <1>7, <1>8, <1>9, StoredStays, Zenon DEF DecidedStored
<1>11. \A s \in Slots : blocks'[LeaderOf[s]][s] \in Proposals
                        => blocks'[LeaderOf[s]][s] = blocks[LeaderOf[s]][s]
  <2>1. ASSUME NEW s \in Slots, blocks'[LeaderOf[s]][s] \in Proposals
        PROVE  blocks'[LeaderOf[s]][s] = blocks[LeaderOf[s]][s]
    <3>1. LeaderOf[s] \in Nodes
      BY ScheduleAssumption
    <3>2. CASE LeaderOf[s] = n /\ s \in fresh
      <4>1. blocks'[n][s] = IF q[s] = NoBlock THEN Empty ELSE q[s]
        BY <1>6, <3>2, Zenon
      <4>2. blocks'[n][s] = q[s]
        BY <2>1, <3>2, <4>1, ProposalAssumption, Zenon
      <4> QED
        BY <1>5, <2>1, <3>2, <4>2, Zenon
    <3>3. CASE ~ (LeaderOf[s] = n /\ s \in fresh)
      BY <1>6, <3>1, <3>3, Zenon
    <3> QED
      BY <3>2, <3>3
  <2> QED
    BY <2>1, Zenon
<1> QED
  BY <1>1, <1>7, <1>10, <1>11, Zenon DEF Steady

LEMMA StreamBlockSteady ==
    ASSUME Inv, DecidedStored, NEW n \in Nodes, StreamBlock(n) PROVE Steady(n)
<1> DEFINE p == stream[n].peer
           k == stream[n].slot
<1>1. p \in Nodes /\ k \in 1 .. MaxSlot + 1 /\ stream[n].to \in 0 .. MaxSlot
  BY DEF Inv, TypeOK
<1>2. k \in Slots
  BY <1>1, ScheduleAssumption DEF StreamBlock, Slots
<1>3. \/ AddBlockToOrderingQueue(n, k, blocks[p][k])
      \/ UNCHANGED <<blocks, how, fillers>>
  BY Zenon DEF StreamBlock, durable
<1> HIDE DEF p, k
<1> QED
  BY <1>1, <1>2, <1>3, OrderingSteady, SteadyIfUnchanged, Zenon

LEMMA NextSteady == ASSUME Inv, DecidedStored, NEW n \in Nodes, NodeNext(n) PROVE Steady(n)
<1> USE DEF durable, published
<1>1. ASSUME NEW s \in Slots, NEW c \in Proposals,
             BroadcastBlock(n, s, c) \/ OnBlockReceived(n, s, c)
      PROVE  Steady(n)
  BY <1>1, BroadcastSteady, OnBlockReceivedSteady, Zenon
<1>2. ASSUME NEW v \in Nodes, NEW s \in Slots, OnVoteReceived(n, v, s) PROVE Steady(n)
  BY <1>2, OnVoteReceivedSteady, Zenon
<1>3. ASSUME NEW p \in Nodes, OnLatestSlotReceived(n, p) \/ SendBlocksOverStream(n, p)
      PROVE  Steady(n)
  BY <1>3, SteadyIfUnchanged, Zenon DEF OnLatestSlotReceived, SendBlocksOverStream
<1>4. CASE StartFromLocal(n) \/ RequestBlockSync(n) \/ NextWindow(n) \/ StreamEnd(n) \/ Crash(n)
  BY <1>4, SteadyIfUnchanged, Zenon
     DEF StartFromLocal, RequestBlockSync, NextWindow, StreamEnd, Crash
<1>5. CASE StreamBlock(n)
  BY <1>5, StreamBlockSteady, Zenon
<1>6. ASSUME NEW s \in Slots, OnEmptyBlockReceived(n, s) PROVE Steady(n)
  BY <1>6, OnEmptyBlockReceivedSteady, Zenon
<1> QED
  BY <1>1, <1>2, <1>3, <1>4, <1>5, <1>6, Zenon DEF NodeNext

\* A step keeps proposals and decisions, and decides within the choices.
LEMMA SteadyAgrees ==
    ASSUME Inv, Inv', DecidedStored, NEW n \in Nodes, Steady(n) PROVE Agreement!ANext
<1>1. \A s \in Slots : LeaderOf[s] \in Nodes
  BY ScheduleAssumption
<1>2. \A s \in Slots : ProposalOf(s) # NoBlock => ProposalOf(s)' = ProposalOf(s)
  <2>1. ASSUME NEW s \in Slots, ProposalOf(s) # NoBlock PROVE ProposalOf(s)' = ProposalOf(s)
    <3>1. blocks[LeaderOf[s]][s] \in Proposals /\ ProposalOf(s) = blocks[LeaderOf[s]][s]
      BY <2>1, Zenon DEF ProposalOf
    <3>2. blocks'[LeaderOf[s]][s] = blocks[LeaderOf[s]][s]
      BY <1>1, <3>1, ProposalAssumption, Zenon DEF Steady, Kept
    <3> QED
      BY <3>1, <3>2, Zenon DEF ProposalOf
  <2> QED
    BY <2>1, Zenon
<1>3. PICK t : \A s \in Slots : s # t /\ blocks'[LeaderOf[s]][s] \in Proposals
                                => blocks'[LeaderOf[s]][s] = blocks[LeaderOf[s]][s]
  BY Zenon DEF Steady
<1>4. \A s \in Slots : s # t => ProposalOf(s)' = ProposalOf(s)
  <2>1. ASSUME NEW s \in Slots, s # t PROVE ProposalOf(s)' = ProposalOf(s)
    <3>1. CASE ProposalOf(s) # NoBlock
      BY <1>2, <3>1, Zenon
    <3>2. CASE ProposalOf(s) = NoBlock
      <4>1. blocks[LeaderOf[s]][s] \notin Proposals
        BY <3>2, ProposalAssumption, Zenon DEF ProposalOf
      <4>2. blocks'[LeaderOf[s]][s] \notin Proposals
        BY <1>3, <2>1, <4>1, Zenon
      <4> QED
        BY <3>2, <4>2, Zenon DEF ProposalOf
    <3> QED
      BY <3>1, <3>2
  <2> QED
    BY <2>1, Zenon
<1> DEFINE proposal == [s \in Slots |-> ProposalOf(s)]
           decided == [m \in Nodes |-> [s \in Slots |-> DecisionOf(m, s)]]
<1>5. \/ proposal' = proposal
      \/ \E s \in Slots, c \in Proposals :
            proposal[s] = NoBlock /\ proposal' = [proposal EXCEPT ![s] = c]
  <2>1. CASE t \in Slots /\ ProposalOf(t)' # ProposalOf(t)
    <3>1. ProposalOf(t) = NoBlock /\ ProposalOf(t)' \in Proposals
      BY <1>2, <2>1, Zenon DEF ProposalOf
    <3>2. proposal' = [proposal EXCEPT ![t] = ProposalOf(t)']
      BY <1>4, <2>1
    <3> QED
      BY <2>1, <3>1, <3>2
  <2>2. CASE ~ (t \in Slots /\ ProposalOf(t)' # ProposalOf(t))
    <3>1. \A s \in Slots : ProposalOf(s)' = ProposalOf(s)
      BY <1>4, <2>2, Zenon
    <3> QED
      BY <3>1
  <2> QED
    BY <2>1, <2>2
<1>6. \A m \in Nodes, s \in Slots : m # n \/ DecisionOf(m, s) # NoBlock
                                    => DecisionOf(m, s)' = DecisionOf(m, s)
  <2>1. ASSUME NEW m \in Nodes, NEW s \in Slots, m # n \/ DecisionOf(m, s) # NoBlock
        PROVE  DecisionOf(m, s)' = DecisionOf(m, s)
    <3>1. CASE how[m][s] = "none"
      <4>1. how'[m][s] = "none"
        BY <2>1, <3>1, Zenon DEF Steady, DecisionOf
      <4> QED
        BY <3>1, <4>1, Zenon DEF DecisionOf
    <3>2. CASE how[m][s] # "none"
      <4>1. how'[m][s] = how[m][s]
        BY <3>2, Zenon DEF Steady
      <4>2. DecisionOf(m, s) = blocks[m][s] /\ DecisionOf(m, s)' = blocks'[m][s]
        BY <3>2, <4>1, Zenon DEF DecisionOf
      <4>3. blocks'[m][s] = blocks[m][s]
        BY <3>2, Zenon DEF Steady, Kept, DecidedStored
      <4> QED
        BY <4>2, <4>3, Zenon
    <3> QED
      BY <3>1, <3>2
  <2> QED
    BY <2>1, Zenon
<1>7. ASSUME NEW s \in Slots, DecisionOf(n, s)' # NoBlock
      PROVE  ProposalOf(s)' = DecisionOf(n, s)' \/ (DecisionOf(n, s)' = Empty /\ s \in fillers')
  <2>1. DecisionOf(n, s)' = blocks'[n][s]
    BY <1>7, Zenon DEF DecisionOf
  <2>2. blocks'[n][s] \in Proposals \/ blocks'[n][s] = Empty
    <3>1. blocks'[n][s] \in Contents
      BY DEF Inv, TypeOK
    <3> QED
      BY <1>7, <2>1, <3>1 DEF Contents
  <2>3. CASE blocks'[n][s] \in Proposals
    <3>1. blocks'[n][s] = blocks'[LeaderOf[s]][s]
      BY <2>3, Zenon DEF Inv, Origin
    <3> QED
      BY <2>1, <2>3, <3>1, Zenon DEF ProposalOf
  <2>4. CASE blocks'[n][s] = Empty
    BY <2>1, <2>4, Zenon DEF Inv, Filled
  <2> QED
    BY <2>2, <2>3, <2>4
<1>8. decided' = [decided EXCEPT ![n] = decided'[n]]
  BY <1>6
<1>9. ASSUME NEW s \in Slots
      PROVE  \/ decided'[n][s] = decided[n][s]
             \/ decided[n][s] = NoBlock /\ decided'[n][s] \in Agreement!Choices(s)
  <2>1. decided[n][s] = DecisionOf(n, s) /\ decided'[n][s] = DecisionOf(n, s)'
        /\ proposal'[s] = ProposalOf(s)'
    BY Zenon
  <2>2. CASE DecisionOf(n, s) # NoBlock \/ DecisionOf(n, s)' = NoBlock
    BY <1>6, <2>1, <2>2, Zenon
  <2>3. CASE DecisionOf(n, s) = NoBlock /\ DecisionOf(n, s)' # NoBlock
    <3>1. DecisionOf(n, s)' \in Agreement!Choices(s)
      BY <1>7, <2>1, <2>3 DEF Agreement!Choices
    <3> QED
      BY <2>1, <2>3, <3>1, Zenon
  <2> QED
    BY <2>2, <2>3
<1>10. Agreement!Decide(n)
  BY <1>8, <1>9, Zenon DEF Agreement!Decide
<1>11. fillers \subseteq fillers'
  BY Zenon DEF Steady
<1> QED
  BY <1>5, <1>10, <1>11, Zenon DEF Agreement!ANext, Agreement!Propose

LEMMA DecidedAlways == Spec => []DecidedStored
<1>1. Init => DecidedStored
  BY DEF Init, DecidedStored
<1>2. Inv /\ DecidedStored /\ [Next]_vars => DecidedStored'
  <2>1. ASSUME Inv, DecidedStored, NEW n \in Nodes, NodeNext(n) PROVE DecidedStored'
    BY <2>1, NextSteady, Zenon DEF Steady, DecidedStored
  <2>2. ASSUME DecidedStored, UNCHANGED vars PROVE DecidedStored'
    BY <2>2, Zenon DEF vars, durable, DecidedStored
  <2> QED
    BY <2>1, <2>2, Zenon DEF Next
<1> QED
  BY <1>1, <1>2, InvAlways, PTL DEF Spec

\* The nodes together implement SlotAgreement: a leader proposes one block per slot,
\* and a node finalizes a slot once and for all, on that block or on a filler the
\* leader made (ProcessVote finalizes after AddBlockPending, the ordering queue
\* finalizes what it has just stored, and neither lets go of a stored block).
THEOREM NodesReachAgreement == Spec => ReachesAgreement
<1>1. Init => Agreement!AInit
  <2> SUFFICES ASSUME Init PROVE Agreement!AInit
    OBVIOUS
  <2>1. \A s \in Slots : ProposalOf(s) = NoBlock /\ \A n \in Nodes : DecisionOf(n, s) = NoBlock
    BY ProposalAssumption, ScheduleAssumption DEF Init, ProposalOf, DecisionOf
  <2> QED
    BY <2>1 DEF Agreement!AInit, Init
<1>2. Inv /\ Inv' /\ DecidedStored /\ [Next]_vars => [Agreement!ANext]_(Agreement!avars)
  <2>1. ASSUME Inv, Inv', DecidedStored, NEW n \in Nodes, NodeNext(n) PROVE Agreement!ANext
    BY <2>1, NextSteady, SteadyAgrees, Zenon
  <2>2. ASSUME UNCHANGED vars PROVE UNCHANGED Agreement!avars
    BY <2>2 DEF vars, durable, published, Agreement!avars, ProposalOf, DecisionOf
  <2> QED
    BY <2>1, <2>2, Zenon DEF Next
<1> QED
  BY <1>1, <1>2, InvAlways, DecidedAlways, PTL DEF Spec, ReachesAgreement, Agreement!ASpec

\* Two nodes that finalized a slot, by votes or by sync, finalized the same block,
\* unless the leader made a filler for the slot.
FinalizedAlike ==
    \A s \in Slots \ fillers : \A n, m \in Nodes :
        how[n][s] # "none" /\ how[m][s] # "none" => blocks[n][s] = blocks[m][s]

\* No two nodes ever finalize different blocks of a slot its leader made no filler
\* for, whether votes or sync finalized them and whoever crashed in between.
THEOREM FinalizedAlwaysAlike == Spec => []FinalizedAlike
<1>1. ASSUME Inv, DecidedStored, NEW s \in Slots \ fillers, NEW n \in Nodes, how[n][s] # "none"
      PROVE  blocks[n][s] = blocks[LeaderOf[s]][s]
  <2>1. blocks[n][s] \in Proposals
    <3>1. blocks[n][s] # NoBlock /\ blocks[n][s] # Empty
      BY <1>1, Zenon DEF Inv, Filled, DecidedStored
    <3> QED
      BY <1>1, <3>1 DEF Inv, TypeOK, Contents
  <2> QED
    BY <1>1, <2>1, Zenon DEF Inv, Origin
<1>2. Inv /\ DecidedStored => FinalizedAlike
  BY <1>1, Zenon DEF FinalizedAlike
<1> QED
  BY <1>2, InvAlways, DecidedAlways, PTL
=============================================================================
