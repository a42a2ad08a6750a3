------------------------- MODULE NodeFinalityProofs -------------------------
(***************************************************************************)
(* Proofs about NodeFinality, for every number of slots, contents, voters  *)
(* and crashes, for validators and listeners, with and without failing     *)
(* writes.                                                                 *)
(*                                                                         *)
(* The properties are not inductive.  What makes them hold: a stored block *)
(* is never replaced, so what was read of it stays true (ApplierStored,    *)
(* SyncStored); applyBlockMu has one holder (MuHeldOnce), so a slot found  *)
(* unmarked under it is still unapplied by this path when it is finalized  *)
(* (HolderFirst); sync finalizes only what it has just stored (SyncFirst). *)
(***************************************************************************)
EXTENDS NodeFinality, FiniteSetTheorems, SequenceTheorems, TLAPS

\* Each goroutine only takes the steps of its own handler.
PcOK ==
    /\ pc["block"] \in {"idle", "vote", "apply", "finalize"}
    /\ pc["leader"] \in {"idle", "vote", "apply", "finalize"}
    /\ pc["vote"] \in {"idle", "check", "apply", "finalize"}
    /\ pc["sync"] \in {"idle", "add", "finalize", "done"}

\* A goroutine inside a handler works on a slot.
ApplierArg == \A g \in Appliers : pc[g] # "idle" => arg[g] \in Slots

\* A vote that is counted now was counted.
VotesCounted == \A s \in Slots : votes[s] \subseteq voted[s]

\* Only a counted quorum leads to applyDataToBlock.
QuorumSeen ==
    \A g \in Appliers :
        pc[g] \in {"check", "apply", "finalize"} => Cardinality(voted[arg[g]]) >= Threshold

\* What is voted for or applied is stored.
ApplierStored ==
    \A g \in Appliers :
        pc[g] \in {"vote", "apply", "finalize"} => HasCompleteBlock(arg[g])

\* applyBlockMu has at most one holder.
MuHeldOnce ==
    \A g, h \in Appliers : pc[g] = "finalize" /\ pc[h] = "finalize" => g = h

\* A slot applied by the vote path carries the marker.
AppliedIsMarked == \A s \in Slots : applies["vote"][s] > 0 => s \in finalized

\* The holder of applyBlockMu works on a slot its path has not applied.
HolderFirst ==
    \A g \in Appliers : pc[g] = "finalize" => applies["vote"][arg[g]] = 0

\* Sync has a block to process, and finalizes what it stored itself.
SyncWork == pc["sync"] \in {"add", "finalize"} => todo # <<>>

SyncFirst ==
    pc["sync"] = "finalize" =>
        /\ HasCompleteBlock(Head(todo).slot)
        /\ applies["sync"][Head(todo).slot] = 0

\* A slot applied by sync is stored.
SyncStored == \A s \in Slots : applies["sync"][s] > 0 => HasCompleteBlock(s)

\* Where the goroutines are, and on what: the part of the types a Goto disturbs.
Control ==
    /\ pc \in [Goroutines -> {"idle", "vote", "check", "apply", "finalize", "add", "done"}]
    /\ arg \in [Goroutines -> 0 .. MaxSlot]
    /\ PcOK
    /\ ApplierArg
    /\ SyncWork

\* The part of the types that is not about control.
Data ==
    /\ blocks \in [Slots -> [content : Contents, invalid : BOOLEAN] \cup {NoBlock}]
    /\ finalized \subseteq Slots
    /\ dbLatestFinalized \in 0 .. MaxSlot
    /\ applies \in [Paths -> [Slots -> Nat]]
    /\ latestFinalized \in 0 .. MaxSlot
    /\ votes \in [Slots -> SUBSET Voters]
    /\ worldLatestSlot \in 0 .. MaxSlot
    /\ requested \in BOOLEAN
    /\ nextExpectedSlot \in 1 .. MaxSlot + 1
    /\ queue \in [Slots -> Contents \cup {NoContent}]
    /\ ready \in BOOLEAN
    /\ todo \in Seq(QueuedBlock)
    /\ last \in 0 .. MaxSlot
    /\ sent \in [Slots -> SUBSET Contents]
    /\ voted \in [Slots -> SUBSET Voters]
    /\ crashes \in 0 .. MaxCrashes

TypeInv == Control /\ Data

VoteInv == VotesCounted /\ QuorumSeen

BlockInv == ApplierStored /\ SyncStored /\ NoDoubleVote

ApplyInv ==
    MuHeldOnce /\ AppliedIsMarked /\ HolderFirst /\ SyncFirst /\ AppliedOncePerPath

IInv ==
    /\ TypeInv
    /\ VoteInv
    /\ BlockInv
    /\ ApplyInv
    /\ FinalityIsJustified

-----------------------------------------------------------------------------
\* Facts about the operators

\* The record AddBlockPending stores is a block.
LEMMA BlockType ==
    ASSUME NEW c \in Contents, NEW bad \in BOOLEAN
    PROVE  Block(c, bad) \in [content : Contents, invalid : BOOLEAN]
BY DEF Block

\* Moving a goroutine that applies.
LEMMA MoveApplier ==
    ASSUME Control, NEW g \in Appliers, NEW l, NEW s \in 0 .. MaxSlot, Goto(g, l, s),
           l \in {"idle", "apply", "finalize", IF g = "vote" THEN "check" ELSE "vote"},
           l # "idle" => s \in Slots,
           todo' = todo
    PROVE  Control'
<1>1. /\ g \in Goroutines /\ g # "sync"
      /\ l \in {"idle", "vote", "check", "apply", "finalize", "add", "done"}
  BY DEF Goroutines, Appliers
<1>2. /\ pc' \in [Goroutines ->
                   {"idle", "vote", "check", "apply", "finalize", "add", "done"}]
      /\ arg' \in [Goroutines -> 0 .. MaxSlot]
  BY <1>1 DEF Control, Goto
<1>3. /\ pc'[g] = l /\ arg'[g] = s
      /\ \A h \in Goroutines \ {g} : pc'[h] = pc[h] /\ arg'[h] = arg[h]
  BY <1>1 DEF Control, Goto
<1>4. PcOK'
  BY <1>1, <1>3 DEF Control, PcOK, Goroutines, Appliers
<1>5. ApplierArg' /\ SyncWork'
  BY <1>1, <1>3 DEF Control, ApplierArg, SyncWork, Goroutines, Appliers
<1> QED
  BY <1>2, <1>4, <1>5 DEF Control

\* Moving sync.
LEMMA MoveSync ==
    ASSUME Control, NEW l \in {"idle", "add", "finalize", "done"}, NEW s \in 0 .. MaxSlot,
           Goto("sync", l, s), l \in {"add", "finalize"} => todo' # <<>>
    PROVE  Control'
<1>1. /\ pc' \in [Goroutines ->
                   {"idle", "vote", "check", "apply", "finalize", "add", "done"}]
      /\ arg' \in [Goroutines -> 0 .. MaxSlot]
  BY Zenon DEF Control, Goto
<1>2. /\ pc'["sync"] = l
      /\ \A h \in Appliers : pc'[h] = pc[h] /\ arg'[h] = arg[h]
  BY DEF Control, Goto, Goroutines, Appliers
<1>3. PcOK' /\ ApplierArg' /\ SyncWork'
  BY <1>2 DEF Control, PcOK, ApplierArg, SyncWork, Appliers
<1> QED
  BY <1>1, <1>3 DEF Control

\* What processConsecutiveBlocks takes from the queue is a list of blocks.
LEMMA RunType ==
    ASSUME Data, NEW q \in [Slots -> Contents \cup {NoContent}],
           NEW m \in nextExpectedSlot .. MaxSlot + 1
    PROVE  /\ Run(q, m) \in Seq(QueuedBlock)
           /\ m # nextExpectedSlot => Run(q, m) # <<>>
<1> DEFINE n == m - nextExpectedSlot
<1>1. n \in Nat
  BY SlotAssumption DEF Data
<1>2. ASSUME NEW i \in 1 .. n
      PROVE  Run(q, m)[i] \in QueuedBlock
  <2> DEFINE k == nextExpectedSlot + i - 1
  <2>1. k \in Slots
    BY SlotAssumption DEF Data, Slots
  <2>2. (IF q[k] = NoContent THEN Empty ELSE q[k]) \in Contents
    BY <2>1, ContentAssumption
  <2>3. Run(q, m)[i] = [slot |-> k, content |-> IF q[k] = NoContent THEN Empty ELSE q[k]]
    BY DEF Run
  <2> QED
    BY <2>1, <2>2, <2>3 DEF QueuedBlock
<1>3. Run(q, m) \in [1 .. n -> QueuedBlock]
  BY <1>2 DEF Run
<1>4. Run(q, m) \in Seq(QueuedBlock) /\ Len(Run(q, m)) = n
  BY <1>1, <1>3, SeqDef
<1> QED
  BY <1>1, <1>4 DEF Data

\* The fields of a block of the run.
LEMMA QueuedBlockType ==
    ASSUME NEW b \in QueuedBlock
    PROVE  b.slot \in Slots /\ b.content \in Contents
BY DEF QueuedBlock

\* The next block of the run is a block, and there is one where sync goes on.
LEMMA SyncNextType ==
    ASSUME TypeInv, pc["sync"] \in {"add", "finalize"}, SyncNext
    PROVE  /\ todo' \in Seq(QueuedBlock)
           /\ \E l \in {"add", "done"}, s \in 0 .. MaxSlot :
                  Goto("sync", l, s) /\ (l = "add" => todo' # <<>>)
<1>1. todo # <<>> /\ todo \in Seq(QueuedBlock)
  BY DEF TypeInv, Control, Data, SyncWork
<1>2. Tail(todo) \in Seq(QueuedBlock)
  BY <1>1, HeadTailProperties
<1>3. CASE Tail(todo) = <<>>
  BY <1>2, <1>3, SlotAssumption DEF SyncNext
<1>4. CASE Tail(todo) # <<>>
  <2>1. Head(Tail(todo)) \in QueuedBlock
    BY <1>2, <1>4, HeadTailProperties
  <2>2. Head(Tail(todo)).slot \in 0 .. MaxSlot
    <3>1. Head(Tail(todo)).slot \in Slots
      BY <2>1, QueuedBlockType, Zenon
    <3>2. Slots \subseteq 0 .. MaxSlot
      BY SlotAssumption DEF Slots
    <3> QED
      BY <3>1, <3>2, Zenon
  <2>3. todo' = Tail(todo) /\ Goto("sync", "add", Head(Tail(todo)).slot)
    BY <1>4 DEF SyncNext
  <2> QED
    BY <1>2, <1>4, <2>2, <2>3
<1> QED
  BY <1>3, <1>4

-----------------------------------------------------------------------------
\* Type correctness

LEMMA InitTypeInv == Init => TypeInv
<1> SUFFICES ASSUME Init PROVE TypeInv
  OBVIOUS
<1>1. NoBlock \in [content : Contents, invalid : BOOLEAN] \cup {NoBlock}
  OBVIOUS
<1>2. todo \in Seq(QueuedBlock)
  BY EmptySeq DEF Init
<1>3. /\ blocks \in [Slots -> [content : Contents, invalid : BOOLEAN] \cup {NoBlock}]
      /\ requested \in BOOLEAN
      /\ ready \in BOOLEAN
  BY <1>1, Zenon DEF Init
<1>4. PcOK /\ ApplierArg /\ SyncWork
  BY DEF Init, PcOK, ApplierArg, SyncWork, Goroutines, Appliers
<1>5. Data
  BY <1>2, <1>3, SlotAssumption, BoundAssumption DEF Init, Data
<1>6. Control
  BY <1>4, SlotAssumption DEF Init, Control
<1> QED
  BY <1>5, <1>6 DEF TypeInv

LEMMA TypeInvTypeOK == TypeInv => TypeOK
BY DEF TypeInv, Control, Data, TypeOK

\* Storing a block.
LEMMA AddBlockType ==
    ASSUME Data, NEW s \in Slots, NEW c \in Contents, NEW bad \in BOOLEAN,
           AddBlockPending(s, c, bad)
    PROVE  blocks' \in [Slots -> [content : Contents, invalid : BOOLEAN] \cup {NoBlock}]
BY BlockType DEF Data, AddBlockPending

\* Finalizing a block.
LEMMA LedgerFinalizeType ==
    ASSUME Data, NEW p \in Paths, NEW s \in Slots, LedgerFinalize(p, s)
    PROVE  /\ finalized' \subseteq Slots
           /\ dbLatestFinalized' \in 0 .. MaxSlot
           /\ applies' \in [Paths -> [Slots -> Nat]]
           /\ latestFinalized' \in 0 .. MaxSlot
<1>1. s \in 0 .. MaxSlot
  BY SlotAssumption DEF Slots
<1>2. CASE UNCHANGED <<finalized, dbLatestFinalized, applies, latestFinalized>>
  BY <1>2 DEF Data
<1>3. CASE /\ finalized' = finalized \cup {s}
           /\ dbLatestFinalized' = IF s > latestFinalized THEN s ELSE dbLatestFinalized
           /\ applies' = [applies EXCEPT ![p][s] = @ + 1]
           /\ latestFinalized' = s
  <2>1. applies \in [Paths -> [Slots -> Nat]]
    BY DEF Data
  <2>2. applies[p] \in [Slots -> Nat]
    BY <2>1
  <2>3. applies' = [applies EXCEPT ![p] = [applies[p] EXCEPT ![s] = applies[p][s] + 1]]
    BY <1>3
  <2>4. applies' \in [Paths -> [Slots -> Nat]]
    BY <2>1, <2>2, <2>3
  <2>5. finalized' \subseteq Slots
    BY <1>3 DEF Data
  <2>6. dbLatestFinalized' \in 0 .. MaxSlot /\ latestFinalized' \in 0 .. MaxSlot
    BY <1>1, <1>3 DEF Data
  <2> QED
    BY <2>4, <2>5, <2>6
<1> QED
  BY <1>2, <1>3, Zenon DEF LedgerFinalize

\* Publishing a vote for a stored block, or not.
LEMMA BroadcastVoteType ==
    ASSUME Data, NEW s \in Slots, HasCompleteBlock(s), BroadcastVote(s)
    PROVE  sent' \in [Slots -> SUBSET Contents]
<1>1. blocks[s] \in [content : Contents, invalid : BOOLEAN]
  BY DEF Data, HasCompleteBlock, NoBlock
<1>2. blocks[s].content \in Contents
  BY <1>1
<1>3. sent \in [Slots -> SUBSET Contents]
  BY DEF Data
<1>4. sent' = sent \/ sent' = [sent EXCEPT ![s] = sent[s] \cup {blocks[s].content}]
  BY DEF BroadcastVote
<1> HIDE DEF HasCompleteBlock
<1> QED
  BY <1>2, <1>3, <1>4

LEMMA NextTypeInv == TypeInv /\ ApplierStored /\ [Next]_vars => TypeInv'
<1> SUFFICES ASSUME TypeInv, ApplierStored, [Next]_vars PROVE TypeInv'
  OBVIOUS
<1>0. Control /\ Data /\ 0 \in 0 .. MaxSlot /\ Slots \subseteq 0 .. MaxSlot
  BY SlotAssumption DEF Slots, TypeInv
<1>1. ASSUME NEW s \in Slots, NEW c \in Contents, OnBlockReceived(s, c)
      PROVE  TypeInv'
  <2>1. Data'
    <3>1. blocks' \in [Slots -> [content : Contents, invalid : BOOLEAN] \cup {NoBlock}]
      <4>1. (c \in BadPoh) \in BOOLEAN
        OBVIOUS
      <4>2. AddBlockPending(s, c, c \in BadPoh)
        BY <1>1 DEF OnBlockReceived
      <4> QED
        BY <1>0, <4>1, <4>2, AddBlockType, Zenon
    <3> QED
      BY <1>0, <1>1, <3>1 DEF Data, OnBlockReceived, syncState
  <2>2. Control'
    <3>1. Goto("block", "idle", 0) \/ Goto("block", "vote", s)
      BY <1>1 DEF OnBlockReceived, Return
    <3> QED
      BY <1>0, <1>1, <3>1, MoveApplier DEF Appliers, OnBlockReceived, syncState
  <2> QED
    BY <2>1, <2>2 DEF TypeInv
<1>2. ASSUME NEW s \in Slots, NEW c \in Contents, BroadcastBlockWithProcessing(s, c)
      PROVE  TypeInv'
  <2>1. Data'
    <3>1. blocks' \in [Slots -> [content : Contents, invalid : BOOLEAN] \cup {NoBlock}]
      BY <1>0, <1>2, AddBlockType, Zenon DEF BroadcastBlockWithProcessing
    <3> QED
      BY <1>0, <1>2, <3>1 DEF Data, BroadcastBlockWithProcessing, syncState
  <2>2. Control'
    <3>1. Goto("leader", "idle", 0) \/ Goto("leader", "vote", s)
      BY <1>2 DEF BroadcastBlockWithProcessing, Return
    <3> QED
      BY <1>0, <1>2, <3>1, MoveApplier DEF Appliers, BroadcastBlockWithProcessing, syncState
  <2> QED
    BY <2>1, <2>2 DEF TypeInv
<1>3. ASSUME NEW v \in Voters, NEW s \in Slots, OnVoteReceived(v, s)
      PROVE  TypeInv'
  <2>1. Data'
    <3>1. votes' \in [Slots -> SUBSET Voters] /\ voted' \in [Slots -> SUBSET Voters]
      BY <1>0, <1>3 DEF Data, OnVoteReceived, AddVote
    <3> QED
      BY <1>0, <1>3, <3>1 DEF Data, OnVoteReceived, syncState, durable
  <2>2. Control'
    <3>1. Goto("vote", "idle", 0) \/ Goto("vote", "check", s)
      BY <1>3 DEF OnVoteReceived, Return
    <3> QED
      BY <1>0, <1>3, <3>1, MoveApplier DEF Appliers, OnVoteReceived, syncState
  <2> QED
    BY <2>1, <2>2 DEF TypeInv
<1>4. ASSUME NEW s \in Slots, NEW c \in Contents, OnSyncResponseReceived(s, c)
      PROVE  TypeInv'
  <2> DEFINE q == [queue EXCEPT ![s] = c]
  <2>q. q \in [Slots -> Contents \cup {NoContent}]
    BY <1>0 DEF Data
  <2>m. PICK m \in nextExpectedSlot .. MaxSlot + 1 :
          /\ todo' = Run(q, m)
          /\ queue' = [k \in Slots |-> IF k \in nextExpectedSlot .. m - 1
                                       THEN NoContent ELSE q[k]]
          /\ nextExpectedSlot' = m
          /\ IF m = nextExpectedSlot
             THEN Return("sync") /\ last' = 0
             ELSE Goto("sync", "add", nextExpectedSlot) /\ last' = m - 1
    BY <1>4 DEF OnSyncResponseReceived
  <2> HIDE DEF q
  <2>n. nextExpectedSlot \in 1 .. MaxSlot + 1
    BY <1>0 DEF Data
  <2>1. Data'
    <3>1. queue' \in [Slots -> Contents \cup {NoContent}]
      BY <2>q, <2>m
    <3>2. todo' \in Seq(QueuedBlock)
      BY <1>0, <2>q, <2>m, RunType
    <3>3. nextExpectedSlot' \in 1 .. MaxSlot + 1 /\ last' \in 0 .. MaxSlot
      BY <2>m, <2>n, SlotAssumption
    <3> QED
      BY <1>0, <1>4, <3>1, <3>2, <3>3, Zenon DEF Data, OnSyncResponseReceived, durable
  <2>2. Control'
    <3>1. CASE m = nextExpectedSlot
      BY <1>0, <2>m, <3>1, MoveSync DEF Return
    <3>2. CASE m # nextExpectedSlot
      <4>1. nextExpectedSlot \in 0 .. MaxSlot
        BY <2>n, <2>m, <3>2, SlotAssumption
      <4>2. todo' # <<>>
        BY <1>0, <2>q, <2>m, <3>2, RunType
      <4> QED
        BY <1>0, <2>m, <3>2, <4>1, <4>2, MoveSync
    <3> QED
      BY <3>1, <3>2
  <2> QED
    BY <2>1, <2>2 DEF TypeInv
<1>5. ASSUME NEW s \in Slots, OnEmptyBlockReceived(s)
      PROVE  TypeInv'
  <2>1. blocks' \in [Slots -> [content : Contents, invalid : BOOLEAN] \cup {NoBlock}]
    BY <1>0, <1>5, AddBlockType, ContentAssumption, Zenon DEF OnEmptyBlockReceived
  <2>2. Data'
    BY <1>0, <1>5, <2>1 DEF Data, OnEmptyBlockReceived, syncState
  <2>3. Control'
    BY <1>0, <1>5 DEF Control, OnEmptyBlockReceived, syncState, PcOK, ApplierArg, SyncWork
  <2> QED
    BY <2>2, <2>3 DEF TypeInv
<1>6. ASSUME NEW s \in Slots, OnLatestSlotReceived(s)
      PROVE  TypeInv'
  <2>1. Data'
    BY <1>0, <1>6 DEF Data, OnLatestSlotReceived, syncState, durable
  <2>2. Control'
    BY <1>0, <1>6 DEF Control, OnLatestSlotReceived, syncState, PcOK, ApplierArg, SyncWork
  <2> QED
    BY <2>1, <2>2 DEF TypeInv
<1>7. ASSUME NEW g \in Goroutines, OwnVote(g)
      PROVE  TypeInv'
  <2>1. g \in Appliers /\ g # "vote" /\ arg[g] \in Slots
    BY <1>0, <1>7 DEF Control, PcOK, ApplierArg, OwnVote, Goroutines, Appliers
  <2>2. HasCompleteBlock(arg[g])
    BY <1>7, <2>1 DEF ApplierStored, OwnVote
  <2>3. Data'
    <3>1. votes' \in [Slots -> SUBSET Voters] /\ voted' \in [Slots -> SUBSET Voters]
      BY <1>0, <1>7, <2>1, VoterAssumption, Zenon DEF Data, OwnVote, AddVote
    <3>2. sent' \in [Slots -> SUBSET Contents]
      <4>1. CASE sent' = sent
        BY <1>0, <4>1 DEF Data
      <4>2. CASE BroadcastVote(arg[g])
        BY <1>0, <2>1, <2>2, <4>2, BroadcastVoteType, Zenon
      <4> QED
        BY <1>7, <4>1, <4>2 DEF OwnVote
    <3> QED
      BY <1>0, <1>7, <3>1, <3>2 DEF Data, OwnVote, syncState, durable
  <2>4. Control'
    <3>1. Goto(g, "idle", 0) \/ Goto(g, "apply", arg[g])
      BY <1>7 DEF OwnVote, Return
    <3>2. todo' = todo
      BY <1>7 DEF OwnVote, syncState
    <3> QED
      BY <1>0, <2>1, <3>1, <3>2, MoveApplier, Zenon
  <2> QED
    BY <2>3, <2>4 DEF TypeInv
<1>8. ASSUME VoteCheck
      PROVE  TypeInv'
  <2>1. "vote" \in Appliers /\ arg["vote"] \in Slots /\ todo' = todo
    BY <1>0, <1>8 DEF Control, ApplierArg, VoteCheck, Appliers, syncState
  <2>2. Data'
    BY <1>0, <1>8 DEF Data, VoteCheck, syncState, durable
  <2>3. Goto("vote", "idle", 0) \/ Goto("vote", "apply", arg["vote"])
    BY <1>8 DEF VoteCheck, Return
  <2>4. Control'
    BY <1>0, <2>1, <2>3, MoveApplier, Zenon
  <2> QED
    BY <2>2, <2>4 DEF TypeInv
<1>9. ASSUME NEW g \in Appliers, Applied(g), arg[g] \in Slots, HasCompleteBlock(arg[g]),
             todo' = todo
      PROVE  Control' /\ sent' \in [Slots -> SUBSET Contents]
  <2>1. Control'
    BY <1>0, <1>9, MoveApplier DEF Applied, Return
  <2>2. CASE sent' = sent
    BY <1>0, <2>1, <2>2 DEF Data
  <2>3. CASE BroadcastVote(arg[g])
    BY <1>0, <1>9, <2>1, <2>3, BroadcastVoteType, Zenon
  <2> QED
    BY <1>9, <2>2, <2>3 DEF Applied
<1>10. ASSUME NEW g \in Appliers, ApplyCheck(g)
       PROVE  TypeInv'
  <2>1. arg[g] \in Slots /\ HasCompleteBlock(arg[g]) /\ todo' = todo
    BY <1>0, <1>10 DEF Control, ApplierArg, ApplierStored, ApplyCheck, syncState
  <2>2. Control' /\ sent' \in [Slots -> SUBSET Contents]
    <3>1. CASE Applied(g)
      BY <1>9, <2>1, <3>1
    <3>2. CASE Goto(g, "finalize", arg[g]) /\ UNCHANGED sent
      <4>1. Control'
        BY <1>0, <2>1, <3>2, MoveApplier, Zenon
      <4> QED
        BY <1>0, <3>2, <4>1 DEF Data
    <3> QED
      BY <1>10, <3>1, <3>2 DEF ApplyCheck
  <2>3. Data'
    BY <1>0, <1>10, <2>2, Zenon DEF Data, ApplyCheck, syncState, durable
  <2> QED
    BY <2>2, <2>3 DEF TypeInv
<1>11. ASSUME NEW g \in Appliers, ApplyFinalize(g)
       PROVE  TypeInv'
  <2>1. arg[g] \in Slots /\ HasCompleteBlock(arg[g]) /\ todo' = todo
    BY <1>0, <1>11 DEF Control, ApplierArg, ApplierStored, ApplyFinalize, syncState
  <2>2. Control' /\ sent' \in [Slots -> SUBSET Contents]
    BY <1>9, <1>11, <2>1, Zenon DEF ApplyFinalize
  <2>3. /\ finalized' \subseteq Slots
        /\ dbLatestFinalized' \in 0 .. MaxSlot
        /\ applies' \in [Paths -> [Slots -> Nat]]
        /\ latestFinalized' \in 0 .. MaxSlot
    BY <1>0, <1>11, <2>1, LedgerFinalizeType, Zenon DEF ApplyFinalize, Paths
  <2>4. Data'
    BY <1>0, <1>11, <2>2, <2>3, Zenon DEF Data, ApplyFinalize, syncState
  <2> QED
    BY <2>2, <2>4 DEF TypeInv
<1>12. ASSUME NEW g \in Appliers, ApplyFails(g)
       PROVE  TypeInv'
  <2>1. Data'
    BY <1>0, <1>12 DEF Data, ApplyFails, syncState, durable
  <2>2. Control'
    BY <1>0, <1>12, MoveApplier DEF ApplyFails, Return, syncState
  <2> QED
    BY <2>1, <2>2 DEF TypeInv
<1>13. ASSUME pc["sync"] \in {"add", "finalize"}, SyncNext
       PROVE  Control' /\ todo' \in Seq(QueuedBlock)
  <2>1. todo' \in Seq(QueuedBlock)
    BY <1>13, SyncNextType
  <2>2. PICK l \in {"add", "done"}, s \in 0 .. MaxSlot :
          Goto("sync", l, s) /\ (l = "add" => todo' # <<>>)
    BY <1>13, SyncNextType
  <2>3. Control'
    BY <1>0, <2>2, MoveSync
  <2> QED
    BY <2>1, <2>3
<1>14. ASSUME pc["sync"] \in {"add", "finalize"}
       PROVE  /\ todo # <<>>
              /\ Head(todo).slot \in Slots
              /\ Head(todo).content \in Contents
  <2>1. todo # <<>> /\ todo \in Seq(QueuedBlock)
    BY <1>0, <1>14 DEF Control, Data, SyncWork
  <2>2. Head(todo) \in QueuedBlock
    BY <2>1, HeadTailProperties
  <2> QED
    BY <2>1, <2>2, QueuedBlockType, Zenon
<1>15. ASSUME SyncAdd
       PROVE  TypeInv'
  <2>p. pc["sync"] \in {"add", "finalize"}
    BY <1>15 DEF SyncAdd
  <2> DEFINE s == Head(todo).slot
             c == Head(todo).content
  <2>1. todo # <<>> /\ s \in Slots /\ c \in Contents
    BY <1>14, <2>p
  <2>2. \/ SyncNext /\ blocks' = blocks
        \/ /\ AddBlockPending(s, c, c \in BadPoh)
           /\ Goto("sync", "finalize", s)
           /\ todo' = todo
    BY <1>15 DEF SyncAdd
  <2> HIDE DEF s, c
  <2>3. /\ Control'
        /\ todo' \in Seq(QueuedBlock)
        /\ blocks' \in [Slots -> [content : Contents, invalid : BOOLEAN] \cup {NoBlock}]
    <3>1. CASE SyncNext /\ blocks' = blocks
      BY <1>0, <1>13, <2>p, <3>1 DEF Data
    <3>2. CASE /\ AddBlockPending(s, c, c \in BadPoh)
               /\ Goto("sync", "finalize", s)
               /\ todo' = todo
      <4>1. (c \in BadPoh) \in BOOLEAN
        OBVIOUS
      <4>2. blocks' \in [Slots -> [content : Contents, invalid : BOOLEAN] \cup {NoBlock}]
        BY <1>0, <2>1, <3>2, <4>1, AddBlockType, Zenon
      <4>3. s \in 0 .. MaxSlot
        BY <1>0, <2>1, Zenon
      <4>4. Control'
        BY <1>0, <2>1, <3>2, <4>3, MoveSync
      <4>5. todo' \in Seq(QueuedBlock)
        BY <1>0, <3>2 DEF Data
      <4> QED
        BY <4>2, <4>4, <4>5
    <3> QED
      BY <2>2, <3>1, <3>2
  <2>4. Data'
    BY <1>0, <1>15, <2>3 DEF Data, SyncAdd
  <2> QED
    BY <2>3, <2>4 DEF TypeInv
<1>16. ASSUME SyncFinalize
       PROVE  TypeInv'
  <2>p. pc["sync"] \in {"add", "finalize"}
    BY <1>16 DEF SyncFinalize
  <2> DEFINE s == Head(todo).slot
  <2>1. s \in Slots /\ LedgerFinalize("sync", s)
    BY <1>14, <1>16, <2>p DEF SyncFinalize
  <2>2. Control' /\ todo' \in Seq(QueuedBlock)
    BY <1>13, <1>16, <2>p DEF SyncFinalize
  <2> HIDE DEF s
  <2>3. /\ finalized' \subseteq Slots
        /\ dbLatestFinalized' \in 0 .. MaxSlot
        /\ applies' \in [Paths -> [Slots -> Nat]]
        /\ latestFinalized' \in 0 .. MaxSlot
    BY <1>0, <2>1, LedgerFinalizeType DEF Paths
  <2>4. Data'
    BY <1>0, <1>16, <2>2, <2>3, Zenon DEF Data, SyncFinalize
  <2> QED
    BY <2>2, <2>4 DEF TypeInv
<1>17. ASSUME SyncFails
       PROVE  TypeInv'
  <2>1. Control' /\ todo' \in Seq(QueuedBlock)
    BY <1>13, <1>17 DEF SyncFails
  <2>2. Data'
    BY <1>0, <1>17, <2>1 DEF Data, SyncFails, durable
  <2> QED
    BY <2>1, <2>2 DEF TypeInv
<1>18. ASSUME SyncDone
       PROVE  TypeInv'
  <2>1. ready' \in BOOLEAN
    BY <1>18, Zenon DEF SyncDone
  <2>2. Data'
    BY <1>0, <1>18, <2>1 DEF Data, SyncDone, durable
  <2>3. Control'
    BY <1>0, <1>18, MoveSync DEF SyncDone, Return
  <2> QED
    BY <2>2, <2>3 DEF TypeInv
<1>19. ASSUME CleanupOldVotes
       PROVE  TypeInv'
  <2>1. votes' \in [Slots -> SUBSET Voters]
    BY <1>0, <1>19 DEF Data, CleanupOldVotes
  <2>2. UNCHANGED <<durable, latestFinalized, worldLatestSlot, syncState, ready, pc, arg,
                    sent, voted, crashes>>
    BY <1>19 DEF CleanupOldVotes
  <2>3. Data'
    BY <1>0, <2>1, <2>2 DEF Data, durable, syncState
  <2>4. Control'
    BY <1>0, <2>2 DEF Control, syncState, PcOK, ApplierArg, SyncWork
  <2> QED
    BY <2>3, <2>4 DEF TypeInv
<1>20. ASSUME StartFromLocal \/ RequestBlockSync
       PROVE  TypeInv'
  <2>1. Data'
    BY <1>0, <1>20, Zenon DEF Data, StartFromLocal, RequestBlockSync, durable, syncState
  <2>2. Control'
    BY <1>0, <1>20 DEF Control, StartFromLocal, RequestBlockSync, syncState, PcOK, ApplierArg,
       SyncWork
  <2> QED
    BY <2>1, <2>2 DEF TypeInv
<1>21. ASSUME Crash
       PROVE  TypeInv'
  <2>1. todo' \in Seq(QueuedBlock)
    BY <1>21, EmptySeq DEF Crash, Started
  <2>2. /\ votes' \in [Slots -> SUBSET Voters]
        /\ queue' \in [Slots -> Contents \cup {NoContent}]
        /\ nextExpectedSlot' \in 1 .. MaxSlot + 1
        /\ crashes' \in 0 .. MaxCrashes
    BY <1>0, <1>21, SlotAssumption, BoundAssumption DEF Data, Crash, Started
  <2>3. Data'
    BY <1>0, <1>21, <2>1, <2>2, Zenon DEF Data, Crash, Started, durable
  <2>4. PcOK' /\ ApplierArg' /\ SyncWork'
    BY <1>21 DEF Crash, Started, PcOK, ApplierArg, SyncWork, Goroutines, Appliers
  <2>5. Control'
    BY <1>0, <1>21, <2>4 DEF Control, Crash, Started
  <2> QED
    BY <2>3, <2>5 DEF TypeInv
<1>22. CASE UNCHANGED vars
  <2>1. Data'
    BY <1>0, <1>22 DEF Data, vars, durable, syncState
  <2>2. Control'
    BY <1>0, <1>22 DEF Control, vars, syncState, PcOK, ApplierArg, SyncWork
  <2> QED
    BY <2>1, <2>2 DEF TypeInv
<1>23. ASSUME NEW g \in Goroutines, Continue(g)
       PROVE  TypeInv'
  BY <1>7, <1>8, <1>10, <1>11, <1>15, <1>16, <1>18, <1>23, Zenon DEF Continue
<1> QED
  BY <1>1, <1>2, <1>3, <1>4, <1>5, <1>6, <1>12, <1>17, <1>19, <1>20, <1>21, <1>22, <1>23,
     OwnSlotsAssumption, Zenon DEF Next, Slots

-----------------------------------------------------------------------------
\* What a step may do to each part of the state

\* A stored block is kept.
StoredKept == \A s \in Slots : HasCompleteBlock(s) => blocks'[s] = blocks[s]

\* Counted votes stay counted, and a new vote is counted.
VotedGrows ==
    \A s \in Slots : voted[s] \subseteq voted'[s] /\ votes'[s] \subseteq votes[s] \cup voted'[s]

\* What is published is a vote for the stored block.
SentStep ==
    \A s \in Slots :
        \/ sent'[s] \subseteq sent[s]
        \/ HasCompleteBlock(s) /\ sent'[s] \subseteq sent[s] \cup {blocks[s].content}

QuorumNow(s) == Cardinality(voted'[s]) >= Threshold

SamePlace(g) == pc'[g] = pc[g] /\ arg'[g] = arg[g]

\* Where a goroutine that applies may go.
ApplierStep(g) ==
    \/ SamePlace(g)
    \/ pc'[g] = "idle"
    \/ pc'[g] = "vote" /\ HasCompleteBlock(arg[g])'
    \/ pc'[g] = "check" /\ QuorumNow(arg'[g])
    \/ pc'[g] = "apply" /\ pc[g] = "vote" /\ arg'[g] = arg[g] /\ QuorumNow(arg[g])
    \/ pc'[g] = "apply" /\ pc[g] = "check" /\ arg'[g] = arg[g] /\ HasCompleteBlock(arg[g])
    \/ /\ pc'[g] = "finalize" /\ pc[g] = "apply" /\ arg'[g] = arg[g]
       /\ ApplyBlockMuFree
       /\ arg[g] \notin finalized
       /\ \A h \in Appliers \ {g} : SamePlace(h)
       /\ UNCHANGED applies

\* Path p applies slot s.
AppliedBy(p, s) ==
    /\ s \in Slots
    /\ ~ blocks[s].invalid
    /\ blocks' = blocks
    /\ finalized' = finalized \cup {s}
    /\ applies'[p][s] = applies[p][s] + 1
    /\ \A r \in Paths, k \in Slots : r # p \/ k # s => applies'[r][k] = applies[r][k]

AppliesStep ==
    \/ UNCHANGED <<applies, finalized>>
    \/ \E g \in Appliers :
          /\ pc[g] = "finalize" /\ pc'[g] = "idle"
          /\ AppliedBy("vote", arg[g])
          /\ pc'["sync"] = pc["sync"] /\ todo' = todo
    \/ /\ pc["sync"] = "finalize" /\ pc'["sync"] # "finalize"
       /\ AppliedBy("sync", Head(todo).slot)

\* Sync finalizes only what it has just stored.
SyncStep ==
    pc'["sync"] = "finalize" =>
        \/ pc["sync"] = "finalize" /\ todo' = todo
        \/ /\ ~ HasCompleteBlock(Head(todo).slot)
           /\ HasCompleteBlock(Head(todo).slot)'
           /\ Head(todo).slot \in Slots
           /\ todo' = todo /\ UNCHANGED applies

Step ==
    /\ StoredKept
    /\ VotedGrows
    /\ SentStep
    /\ \A g \in Appliers : ApplierStep(g)
    /\ AppliesStep
    /\ SyncStep

\* Storing a block keeps the others and makes its slot's block complete.
LEMMA AddBlockStep ==
    ASSUME Data, NEW s \in Slots, NEW c \in Contents, NEW bad, AddBlockPending(s, c, bad)
    PROVE  /\ StoredKept
           /\ ~ HasCompleteBlock(s)
           /\ HasCompleteBlock(s)'
<1>1. /\ blocks' = [blocks EXCEPT ![s] = Block(c, bad)]
      /\ DOMAIN blocks = Slots
      /\ ~ HasCompleteBlock(s)
  BY DEF Data, AddBlockPending
<1>2. Block(c, bad).content = c
  BY DEF Block
<1>3. c # NoContent
  BY NoContentAssumption
<1>4. blocks'[s].content = c
  BY <1>1, <1>2
<1> QED
  BY <1>1, <1>3, <1>4 DEF StoredKept, HasCompleteBlock

\* Counting a vote.
LEMMA AddVoteStep ==
    ASSUME Data, NEW s \in Slots, NEW v \in Voters, AddVote(v, s), VotesCounted
    PROVE  /\ VotedGrows
           /\ Committed(v, s) => QuorumNow(s)
<1>1. /\ votes' = [votes EXCEPT ![s] = votes[s] \cup {v}]
      /\ voted' = [voted EXCEPT ![s] = voted[s] \cup {v}]
      /\ votes \in [Slots -> SUBSET Voters]
      /\ voted \in [Slots -> SUBSET Voters]
  BY DEF Data, AddVote
<1>2. VotedGrows
  BY <1>1 DEF VotedGrows
<1>3. votes[s] \cup {v} \subseteq voted'[s] /\ voted'[s] \subseteq Voters
  BY <1>1 DEF VotesCounted
<1>4. IsFiniteSet(voted'[s])
  BY <1>3, VoterAssumption, FS_Subset
<1>5. /\ Cardinality(votes[s] \cup {v}) <= Cardinality(voted'[s])
      /\ Cardinality(votes[s] \cup {v}) \in Nat /\ Cardinality(voted'[s]) \in Nat
  BY <1>3, <1>4, FS_Subset, FS_CardinalityType
<1>6. Threshold \in Int
  BY TotalAssumption DEF Threshold
<1> QED
  BY <1>2, <1>5, <1>6 DEF Committed, QuorumNow

\* Applying a block, or skipping an invalid one.
LEMMA LedgerFinalizeStep ==
    ASSUME Data, NEW p \in Paths, NEW s \in Slots, LedgerFinalize(p, s), blocks' = blocks
    PROVE  UNCHANGED <<applies, finalized>> \/ AppliedBy(p, s)
<1>1. CASE UNCHANGED <<finalized, dbLatestFinalized, applies, latestFinalized>>
  BY <1>1
<1>2. CASE /\ ~ blocks[s].invalid
           /\ finalized' = finalized \cup {s}
           /\ applies' = [applies EXCEPT ![p][s] = @ + 1]
  <2>1. applies \in [Paths -> [Slots -> Nat]]
    BY DEF Data
  <2>2. applies' = [applies EXCEPT ![p] = [applies[p] EXCEPT ![s] = applies[p][s] + 1]]
    BY <1>2
  <2>3. /\ applies'[p][s] = applies[p][s] + 1
        /\ \A r \in Paths, k \in Slots : r # p \/ k # s => applies'[r][k] = applies[r][k]
    BY <2>1, <2>2
  <2> QED
    BY <1>2, <2>3, Zenon DEF AppliedBy
<1> QED
  BY <1>1, <1>2, Zenon DEF LedgerFinalize

\* Publishing a vote, or not.
LEMMA BroadcastVoteStep ==
    ASSUME Data, NEW s \in Slots, HasCompleteBlock(s), BroadcastVote(s)
    PROVE  SentStep
<1>1. sent \in [Slots -> SUBSET Contents]
  BY DEF Data
<1>2. sent' = sent \/ sent' = [sent EXCEPT ![s] = sent[s] \cup {blocks[s].content}]
  BY DEF BroadcastVote
<1> QED
  BY <1>1, <1>2 DEF SentStep

\* Moving one goroutine leaves the others where they are.
LEMMA GotoStep ==
    ASSUME Control, NEW g \in Goroutines, NEW l, NEW s, Goto(g, l, s)
    PROVE  /\ pc'[g] = l /\ arg'[g] = s
           /\ \A h \in Goroutines \ {g} : SamePlace(h)
BY DEF Control, Goto, SamePlace

\* Every step of a node is a Step.
LEMMA NextStep == TypeInv /\ VotesCounted /\ ApplierStored /\ [Next]_vars => Step
<1> SUFFICES ASSUME TypeInv, VotesCounted, ApplierStored, [Next]_vars PROVE Step
  OBVIOUS
<1>0. Control /\ Data
  BY DEF TypeInv
<1>g. Appliers \subseteq Goroutines /\ "sync" \in Goroutines /\ "sync" \notin Appliers
  BY DEF Appliers, Goroutines
<1>v. UNCHANGED <<votes, voted>> => VotedGrows
  BY DEF VotedGrows
<1>b. UNCHANGED blocks => StoredKept
  BY DEF StoredKept
<1>s. UNCHANGED sent => SentStep
  BY DEF SentStep
<1>1. ASSUME NEW s \in Slots, NEW c \in Contents, OnBlockReceived(s, c)
      PROVE  Step
  <2>1. StoredKept /\ HasCompleteBlock(s)'
    BY <1>0, <1>1, AddBlockStep DEF OnBlockReceived
  <2>2. Goto("block", "idle", 0) \/ Goto("block", "vote", s)
    BY <1>1 DEF OnBlockReceived, Return
  <2>3. /\ pc'["block"] = "idle" \/ (pc'["block"] = "vote" /\ arg'["block"] = s)
        /\ \A h \in Goroutines \ {"block"} : SamePlace(h)
    BY <1>0, <2>2, GotoStep DEF Goroutines
  <2>4. \A g \in Appliers : ApplierStep(g)
    BY <1>g, <2>1, <2>3, Zenon DEF ApplierStep, HasCompleteBlock
  <2>5. SyncStep
    BY <1>1, <1>g, <2>3, Zenon DEF SyncStep, SamePlace, Appliers, OnBlockReceived, syncState
  <2> QED
    BY <1>1, <1>v, <1>s, <2>1, <2>4, <2>5 DEF Step, AppliesStep, OnBlockReceived
<1>2. ASSUME NEW s \in Slots, NEW c \in Contents, BroadcastBlockWithProcessing(s, c)
      PROVE  Step
  <2>1. StoredKept /\ HasCompleteBlock(s)'
    BY <1>0, <1>2, AddBlockStep, Zenon DEF BroadcastBlockWithProcessing
  <2>2. Goto("leader", "idle", 0) \/ Goto("leader", "vote", s)
    BY <1>2 DEF BroadcastBlockWithProcessing, Return
  <2>3. /\ pc'["leader"] = "idle" \/ (pc'["leader"] = "vote" /\ arg'["leader"] = s)
        /\ \A h \in Goroutines \ {"leader"} : SamePlace(h)
    BY <1>0, <2>2, GotoStep DEF Goroutines
  <2>4. \A g \in Appliers : ApplierStep(g)
    BY <1>g, <2>1, <2>3 DEF ApplierStep, HasCompleteBlock
  <2>5. SyncStep
    BY <1>2, <1>g, <2>3 DEF SyncStep, SamePlace, Appliers, BroadcastBlockWithProcessing,
       syncState
  <2> QED
    BY <1>2, <1>v, <1>s, <2>1, <2>4, <2>5, Zenon DEF Step, AppliesStep, BroadcastBlockWithProcessing
<1>3. ASSUME NEW v \in Voters, NEW s \in Slots, OnVoteReceived(v, s)
      PROVE  Step
  <2>1. VotedGrows /\ (Committed(v, s) => QuorumNow(s))
    BY <1>0, <1>3, AddVoteStep DEF OnVoteReceived
  <2>2. Goto("vote", "idle", 0) \/ (Goto("vote", "check", s) /\ Committed(v, s))
    BY <1>3 DEF OnVoteReceived, Return
  <2>3. /\ \/ pc'["vote"] = "idle"
           \/ pc'["vote"] = "check" /\ arg'["vote"] = s /\ QuorumNow(s)
        /\ \A h \in Goroutines \ {"vote"} : SamePlace(h)
    BY <1>0, <2>1, <2>2, GotoStep DEF Goroutines
  <2>4. \A g \in Appliers : ApplierStep(g)
    BY <1>g, <2>3 DEF ApplierStep
  <2>5. SyncStep
    BY <1>3, <1>g, <2>3, Zenon DEF SyncStep, SamePlace, Appliers, OnVoteReceived, syncState
  <2> QED
    BY <1>3, <1>b, <1>s, <2>1, <2>4, <2>5, Zenon DEF Step, AppliesStep, OnVoteReceived, durable
<1>4. ASSUME NEW g \in Goroutines, OwnVote(g)
      PROVE  Step
  <2>1. g \in Appliers /\ arg[g] \in Slots /\ HasCompleteBlock(arg[g])
    BY <1>0, <1>4 DEF Control, PcOK, ApplierArg, ApplierStored, OwnVote, Goroutines, Appliers
  <2>2. VotedGrows /\ (Committed(Self, arg[g]) => QuorumNow(arg[g]))
    BY <1>0, <1>4, <2>1, AddVoteStep, VoterAssumption, Zenon DEF OwnVote
  <2>3. \/ Goto(g, "idle", 0)
        \/ Goto(g, "apply", arg[g]) /\ Committed(Self, arg[g])
    BY <1>4, Zenon DEF OwnVote, Return
  <2>4. /\ \/ pc'[g] = "idle"
           \/ pc'[g] = "apply" /\ arg'[g] = arg[g] /\ QuorumNow(arg[g])
        /\ \A h \in Goroutines \ {g} : SamePlace(h)
    BY <1>0, <2>2, <2>3, GotoStep, Zenon
  <2>5. \A h \in Appliers : ApplierStep(h)
    BY <1>4, <1>g, <2>4, Zenon DEF ApplierStep, OwnVote
  <2>6. SyncStep
    BY <1>4, <1>g, <2>1, <2>4, Zenon DEF SyncStep, SamePlace, OwnVote, syncState
  <2>7. SentStep
    BY <1>0, <1>4, <1>s, <2>1, BroadcastVoteStep, Zenon DEF OwnVote
  <2> QED
    BY <1>4, <1>b, <2>2, <2>5, <2>6, <2>7, Zenon DEF Step, AppliesStep, OwnVote, durable
<1>5. ASSUME VoteCheck
      PROVE  Step
  <2>1. \/ Goto("vote", "idle", 0)
        \/ Goto("vote", "apply", arg["vote"]) /\ HasCompleteBlock(arg["vote"])
    BY <1>5 DEF VoteCheck, Return
  <2>2. /\ \/ pc'["vote"] = "idle"
           \/ pc'["vote"] = "apply" /\ arg'["vote"] = arg["vote"]
              /\ HasCompleteBlock(arg["vote"])
        /\ \A h \in Goroutines \ {"vote"} : SamePlace(h)
    BY <1>0, <2>1, GotoStep DEF Goroutines
  <2>3. \A g \in Appliers : ApplierStep(g)
    BY <1>5, <1>g, <2>2 DEF ApplierStep, VoteCheck
  <2>4. SyncStep
    BY <1>5, <1>g, <2>2 DEF SyncStep, SamePlace, Appliers, VoteCheck, syncState
  <2> QED
    BY <1>5, <1>b, <1>v, <1>s, <2>3, <2>4, Zenon DEF Step, AppliesStep, VoteCheck, durable
<1>6. ASSUME NEW g \in Appliers, Applied(g), arg[g] \in Slots, HasCompleteBlock(arg[g]),
             todo' = todo
      PROVE  /\ SentStep
             /\ pc'[g] = "idle"
             /\ \A h \in Appliers : ApplierStep(h)
             /\ SyncStep
             /\ pc'["sync"] = pc["sync"]
  <2>1. pc'[g] = "idle" /\ \A h \in Goroutines \ {g} : SamePlace(h)
    BY <1>0, <1>g, <1>6, GotoStep DEF Applied, Return
  <2>2. SentStep
    BY <1>0, <1>6, <1>s, BroadcastVoteStep DEF Applied
  <2>3. \A h \in Appliers : ApplierStep(h)
    BY <1>g, <2>1 DEF ApplierStep
  <2>4. pc'["sync"] = pc["sync"]
    BY <1>g, <2>1 DEF SamePlace
  <2>5. SyncStep
    BY <1>6, <2>4 DEF SyncStep
  <2> QED
    BY <2>1, <2>2, <2>3, <2>4, <2>5
<1>7. ASSUME NEW g \in Appliers, ApplyCheck(g)
      PROVE  Step
  <2>1. arg[g] \in Slots /\ HasCompleteBlock(arg[g]) /\ todo' = todo
    BY <1>0, <1>7 DEF Control, ApplierArg, ApplierStored, ApplyCheck, syncState
  <2>2. SentStep /\ SyncStep /\ \A h \in Appliers : ApplierStep(h)
    <3>1. CASE Applied(g)
      BY <1>6, <2>1, <3>1
    <3>2. CASE Goto(g, "finalize", arg[g]) /\ UNCHANGED sent /\ arg[g] \notin finalized
      <4>1. /\ pc'[g] = "finalize" /\ arg'[g] = arg[g]
            /\ \A h \in Goroutines \ {g} : SamePlace(h)
        BY <1>0, <1>g, <3>2, GotoStep
      <4>2. \A h \in Appliers : ApplierStep(h)
        BY <1>7, <1>g, <3>2, <4>1, Zenon DEF ApplierStep, ApplyCheck, durable
      <4>3. SyncStep
        BY <1>g, <2>1, <4>1 DEF SyncStep, SamePlace
      <4> QED
        BY <1>s, <3>2, <4>2, <4>3
    <3> QED
      BY <1>7, <3>1, <3>2 DEF ApplyCheck
  <2> QED
    BY <1>7, <1>b, <1>v, <2>2 DEF Step, AppliesStep, ApplyCheck, durable
<1>8. ASSUME NEW g \in Appliers, ApplyFinalize(g)
      PROVE  Step
  <2>1. arg[g] \in Slots /\ HasCompleteBlock(arg[g]) /\ todo' = todo
    BY <1>0, <1>8 DEF Control, ApplierArg, ApplierStored, ApplyFinalize, syncState
  <2>2. /\ SentStep /\ SyncStep /\ \A h \in Appliers : ApplierStep(h)
        /\ pc'[g] = "idle" /\ pc'["sync"] = pc["sync"]
    BY <1>6, <1>8, <2>1 DEF ApplyFinalize
  <2>3. UNCHANGED <<applies, finalized>> \/ AppliedBy("vote", arg[g])
    BY <1>0, <1>8, <2>1, LedgerFinalizeStep DEF ApplyFinalize, Paths
  <2>4. AppliesStep
    BY <1>8, <2>1, <2>2, <2>3, Zenon DEF AppliesStep, ApplyFinalize
  <2> QED
    BY <1>8, <1>b, <1>v, <2>2, <2>4 DEF Step, ApplyFinalize
<1>9. ASSUME NEW g \in Appliers, ApplyFails(g)
      PROVE  Step
  <2>1. pc'[g] = "idle" /\ \A h \in Goroutines \ {g} : SamePlace(h)
    BY <1>0, <1>g, <1>9, GotoStep DEF ApplyFails, Return
  <2>2. \A h \in Appliers : ApplierStep(h)
    BY <1>g, <2>1 DEF ApplierStep
  <2>3. SyncStep
    BY <1>9, <1>g, <2>1 DEF SyncStep, SamePlace, ApplyFails, syncState
  <2> QED
    BY <1>9, <1>b, <1>v, <1>s, <2>2, <2>3, Zenon DEF Step, AppliesStep, ApplyFails, durable
<1>10. ASSUME NEW l, NEW s, Goto("sync", l, s)
       PROVE  pc'["sync"] = l /\ \A g \in Appliers : ApplierStep(g)
  <2>1. pc'["sync"] = l /\ \A h \in Goroutines \ {"sync"} : SamePlace(h)
    BY <1>0, <1>g, <1>10, GotoStep
  <2> QED
    BY <1>g, <2>1 DEF ApplierStep
<1>11. ASSUME NEW s \in Slots, NEW c \in Contents, OnSyncResponseReceived(s, c)
       PROVE  Step
  <2>1. \E l \in {"idle", "add"}, k \in {0, nextExpectedSlot} : Goto("sync", l, k)
    BY <1>11 DEF OnSyncResponseReceived, Return
  <2>2. pc'["sync"] # "finalize" /\ \A g \in Appliers : ApplierStep(g)
    BY <1>10, <2>1
  <2> QED
    BY <1>11, <1>b, <1>v, <1>s, <2>2, Zenon
       DEF Step, AppliesStep, SyncStep, OnSyncResponseReceived, durable
<1>12. ASSUME SyncNext
       PROVE  pc'["sync"] # "finalize" /\ \A g \in Appliers : ApplierStep(g)
  <2>1. \/ Goto("sync", "done", 0)
        \/ Goto("sync", "add", Head(Tail(todo)).slot)
    BY <1>12 DEF SyncNext
  <2> QED
    BY <1>10, <2>1
<1>13. ASSUME pc["sync"] \in {"add", "finalize"}
       PROVE  Head(todo).slot \in Slots /\ Head(todo).content \in Contents
  <2>1. todo # <<>> /\ todo \in Seq(QueuedBlock)
    BY <1>0, <1>13 DEF Control, Data, SyncWork
  <2>2. Head(todo) \in QueuedBlock
    BY <2>1, HeadTailProperties
  <2> QED
    BY <2>2, QueuedBlockType, Zenon
<1>14. ASSUME SyncAdd
       PROVE  Step
  <2>1. /\ VotedGrows /\ SentStep /\ AppliesStep
        /\ UNCHANGED applies
    BY <1>14, <1>v, <1>s, Zenon DEF SyncAdd, AppliesStep
  <2>2. CASE SyncNext /\ blocks' = blocks
    BY <1>b, <1>12, <2>1, <2>2 DEF Step, SyncStep
  <2>3. CASE /\ AddBlockPending(Head(todo).slot, Head(todo).content,
                                Head(todo).content \in BadPoh)
             /\ Goto("sync", "finalize", Head(todo).slot)
             /\ todo' = todo
    <3>1. Head(todo).slot \in Slots /\ Head(todo).content \in Contents
      BY <1>13, <1>14 DEF SyncAdd
    <3>2. PICK s \in Slots, c \in Contents :
            s = Head(todo).slot /\ AddBlockPending(s, c, c \in BadPoh)
      BY <2>3, <3>1, Zenon
    <3>3. StoredKept /\ ~ HasCompleteBlock(s) /\ HasCompleteBlock(s)'
      BY <1>0, <3>2, AddBlockStep, Zenon
    <3>4. pc'["sync"] = "finalize" /\ \A g \in Appliers : ApplierStep(g)
      BY <1>10, <2>3
    <3>5. SyncStep
      BY <2>1, <2>3, <3>2, <3>3 DEF SyncStep, HasCompleteBlock
    <3> QED
      BY <2>1, <3>3, <3>4, <3>5 DEF Step
  <2> QED
    BY <1>14, <2>2, <2>3, Zenon DEF SyncAdd
<1>15. ASSUME SyncFinalize
       PROVE  Step
  <2>1. pc'["sync"] # "finalize" /\ \A g \in Appliers : ApplierStep(g)
    BY <1>12, <1>15 DEF SyncFinalize
  <2>2. Head(todo).slot \in Slots
    BY <1>13, <1>15 DEF SyncFinalize
  <2>3. UNCHANGED <<applies, finalized>> \/ AppliedBy("sync", Head(todo).slot)
    BY <1>0, <1>15, <2>2, LedgerFinalizeStep DEF SyncFinalize, Paths
  <2>4. AppliesStep
    BY <1>15, <2>1, <2>3 DEF AppliesStep, SyncFinalize
  <2> QED
    BY <1>15, <1>b, <1>v, <1>s, <2>1, <2>4 DEF Step, SyncStep, SyncFinalize
<1>16. ASSUME SyncFails
       PROVE  Step
  <2>1. pc'["sync"] # "finalize" /\ \A g \in Appliers : ApplierStep(g)
    BY <1>12, <1>16 DEF SyncFails
  <2> QED
    BY <1>16, <1>b, <1>v, <1>s, <2>1 DEF Step, SyncStep, AppliesStep, SyncFails, durable
<1>17. ASSUME SyncDone
       PROVE  Step
  <2>1. pc'["sync"] # "finalize" /\ \A g \in Appliers : ApplierStep(g)
    BY <1>10, <1>17 DEF SyncDone, Return
  <2> QED
    BY <1>17, <1>b, <1>v, <1>s, <2>1 DEF Step, SyncStep, AppliesStep, SyncDone, durable
<1>18. ASSUME NEW s \in Slots, OnEmptyBlockReceived(s)
       PROVE  Step
  <2>1. StoredKept
    BY <1>0, <1>18, AddBlockStep, ContentAssumption, Zenon DEF OnEmptyBlockReceived
  <2> QED
    BY <1>18, <1>v, <1>s, <2>1, Zenon DEF Step, SyncStep, AppliesStep, ApplierStep, SamePlace,
       OnEmptyBlockReceived, syncState
<1>19. CASE \/ \E s \in Slots : OnLatestSlotReceived(s)
            \/ StartFromLocal
            \/ RequestBlockSync
            \/ UNCHANGED vars
  <2>1. UNCHANGED <<durable, votes, todo, pc, arg, sent, voted>>
    BY <1>19 DEF OnLatestSlotReceived, StartFromLocal, RequestBlockSync, vars, syncState
  <2> QED
    BY <1>b, <1>v, <1>s, <2>1, Zenon DEF Step, SyncStep, AppliesStep, ApplierStep, SamePlace, durable
<1>20. CASE CleanupOldVotes
  <2>1. UNCHANGED <<durable, todo, pc, arg, sent, voted>>
    BY <1>20, Zenon DEF CleanupOldVotes, syncState
  <2>2. VotedGrows
    BY <1>0, <1>20 DEF VotedGrows, CleanupOldVotes, Data
  <2> QED
    BY <1>b, <1>s, <2>1, <2>2, Zenon DEF Step, SyncStep, AppliesStep, ApplierStep, SamePlace, durable
<1>21. CASE Crash
  <2>1. UNCHANGED <<durable, sent, voted>> /\ pc' = [g \in Goroutines |-> "idle"]
    BY <1>21 DEF Crash, Started
  <2>2. VotedGrows
    BY <1>21, Zenon DEF VotedGrows, Crash, Started
  <2> QED
    BY <1>b, <1>g, <1>s, <2>1, <2>2, Zenon DEF Step, SyncStep, AppliesStep, ApplierStep, durable
<1>22. ASSUME NEW g \in Goroutines, Continue(g)
       PROVE  Step
  BY <1>4, <1>5, <1>7, <1>8, <1>14, <1>15, <1>17, <1>22, Zenon DEF Continue
<1> QED
  BY <1>1, <1>2, <1>3, <1>9, <1>11, <1>16, <1>18, <1>19, <1>20, <1>21, <1>22,
     OwnSlotsAssumption, Zenon DEF Next, Slots

-----------------------------------------------------------------------------
\* The invariant

\* A quorum that was counted is a quorum of what is counted later.
LEMMA QuorumKept ==
    ASSUME Data, Data', VotedGrows, NEW s \in Slots, Cardinality(voted[s]) >= Threshold
    PROVE  QuorumNow(s)
<1>1. voted[s] \subseteq voted'[s] /\ voted'[s] \subseteq Voters
  BY Zenon DEF Data, VotedGrows
<1>2. IsFiniteSet(voted'[s])
  BY <1>1, VoterAssumption, FS_Subset, Zenon
<1>3. /\ Cardinality(voted[s]) <= Cardinality(voted'[s])
      /\ Cardinality(voted[s]) \in Nat /\ Cardinality(voted'[s]) \in Nat
  BY <1>1, <1>2, FS_Subset, FS_CardinalityType
<1>4. Threshold \in Int
  BY TotalAssumption DEF Threshold
<1> QED
  BY <1>3, <1>4 DEF QuorumNow

LEMMA InitIInv == Init => IInv
<1> SUFFICES ASSUME Init PROVE IInv
  OBVIOUS
<1>1. TypeInv
  BY InitTypeInv
<1>2. VoteInv
  BY DEF Init, VoteInv, VotesCounted, QuorumSeen, Appliers, Goroutines
<1>3. BlockInv
  BY DEF Init, BlockInv, ApplierStored, SyncStored, NoDoubleVote, Appliers, Goroutines, Paths
<1>4. ApplyInv
  BY DEF Init, ApplyInv, MuHeldOnce, AppliedIsMarked, HolderFirst, SyncFirst,
     AppliedOncePerPath, Appliers, Goroutines, Paths
<1>5. FinalityIsJustified
  BY DEF Init, FinalityIsJustified
<1> QED
  BY <1>1, <1>2, <1>3, <1>4, <1>5 DEF IInv

LEMMA NextIInv == IInv /\ [Next]_vars => IInv'
<1> SUFFICES ASSUME IInv, [Next]_vars PROVE IInv'
  OBVIOUS
<1>1. /\ TypeInv /\ VotesCounted /\ QuorumSeen /\ ApplierStored /\ SyncStored
      /\ NoDoubleVote /\ MuHeldOnce /\ AppliedIsMarked /\ HolderFirst /\ SyncFirst
      /\ AppliedOncePerPath /\ FinalityIsJustified
  BY DEF IInv, VoteInv, BlockInv, ApplyInv
<1>2. TypeInv' /\ Step
  BY <1>1, NextTypeInv, NextStep
<1>3. /\ StoredKept /\ VotedGrows /\ SentStep /\ AppliesStep /\ SyncStep
      /\ \A g \in Appliers : ApplierStep(g)
  BY <1>2 DEF Step
<1>4. Control /\ Data /\ Control' /\ Data'
  BY <1>1, <1>2 DEF TypeInv
<1>a. /\ applies \in [Paths -> [Slots -> Nat]]
      /\ "vote" \in Paths /\ "sync" \in Paths
  BY <1>4, Zenon DEF Data, Paths
<1>5. VotesCounted'
  BY <1>1, <1>3 DEF VotesCounted, VotedGrows
<1>6. QuorumSeen'
  <2> SUFFICES ASSUME NEW g \in Appliers, pc'[g] \in {"check", "apply", "finalize"}
               PROVE  QuorumNow(arg'[g])
    BY DEF QuorumSeen, QuorumNow
  <2>1. CASE pc[g] \in {"check", "apply", "finalize"} /\ arg'[g] = arg[g]
    <3>1. arg[g] \in Slots /\ Cardinality(voted[arg[g]]) >= Threshold
      BY <1>1, <1>4, <2>1 DEF QuorumSeen, Control, ApplierArg
    <3> QED
      BY <1>3, <1>4, <2>1, <3>1, QuorumKept, Zenon
  <2>2. CASE ~ (pc[g] \in {"check", "apply", "finalize"} /\ arg'[g] = arg[g])
    BY <1>3, <2>2, Zenon DEF ApplierStep, SamePlace
  <2> QED
    BY <2>1, <2>2
<1>7. ApplierStored'
  <2> SUFFICES ASSUME NEW g \in Appliers, pc'[g] \in {"vote", "apply", "finalize"}
               PROVE  HasCompleteBlock(arg[g])'
    BY DEF ApplierStored
  <2>1. CASE pc'[g] = "vote" /\ ~ SamePlace(g)
    BY <1>3, <2>1, Zenon DEF ApplierStep
  <2>2. CASE ~ (pc'[g] = "vote" /\ ~ SamePlace(g))
    <3>1. arg'[g] = arg[g] /\ pc[g] # "idle" /\ HasCompleteBlock(arg[g])
      BY <1>1, <1>3, <2>2, Zenon DEF ApplierStep, SamePlace, ApplierStored
    <3>2. arg[g] \in Slots
      BY <1>4, <3>1 DEF Control, ApplierArg
    <3> QED
      BY <1>3, <3>1, <3>2 DEF StoredKept, HasCompleteBlock
  <2> QED
    BY <2>1, <2>2
<1>8. SyncStored'
  <2> SUFFICES ASSUME NEW s \in Slots, applies'["sync"][s] > 0
               PROVE  HasCompleteBlock(s)'
    BY DEF SyncStored
  <2>1. HasCompleteBlock(s)
    <3>1. CASE applies["sync"][s] > 0
      BY <1>1, <3>1 DEF SyncStored
    <3>2. CASE ~ (applies["sync"][s] > 0)
      BY <1>1, <1>3, <1>a, <3>2, Zenon DEF AppliesStep, AppliedBy, SyncFirst
    <3> QED
      BY <3>1, <3>2
  <2> QED
    BY <1>3, <2>1 DEF StoredKept, HasCompleteBlock
<1>9. NoDoubleVote'
  <2> SUFFICES ASSUME NEW s \in Slots PROVE sent'[s] \subseteq {blocks'[s].content}
    BY DEF NoDoubleVote
  <2>1. sent[s] \subseteq Contents /\ sent[s] \subseteq {blocks[s].content}
    BY <1>1, <1>4, Zenon DEF Data, NoDoubleVote
  <2>2. CASE HasCompleteBlock(s)
    <3>1. blocks'[s] = blocks[s]
      BY <1>3, <2>2 DEF StoredKept
    <3> QED
      BY <1>3, <2>1, <3>1, Zenon DEF SentStep
  <2>3. CASE ~ HasCompleteBlock(s)
    <3>1. sent[s] = {}
      BY <2>1, <2>3, NoContentAssumption DEF HasCompleteBlock
    <3> QED
      BY <1>3, <2>3, <3>1 DEF SentStep
  <2> QED
    BY <2>2, <2>3
<1>10. MuHeldOnce'
  <2> SUFFICES ASSUME NEW g \in Appliers, NEW h \in Appliers,
                      pc'[g] = "finalize", pc'[h] = "finalize", g # h
               PROVE  FALSE
    BY DEF MuHeldOnce
  <2>1. ApplierStep(g) /\ ApplierStep(h)
    BY <1>3
  <2>2. pc[g] = "finalize" \/ (ApplyBlockMuFree /\ SamePlace(h))
    BY <2>1, Zenon DEF ApplierStep, SamePlace
  <2>3. pc[h] = "finalize" \/ (ApplyBlockMuFree /\ SamePlace(g))
    BY <2>1, Zenon DEF ApplierStep, SamePlace
  <2> QED
    BY <1>1, <2>2, <2>3 DEF MuHeldOnce, ApplyBlockMuFree, SamePlace
<1>11. AppliedIsMarked'
  BY <1>1, <1>3, <1>a, Zenon DEF AppliedIsMarked, AppliesStep, AppliedBy, Paths
<1>12. HolderFirst'
  <2> SUFFICES ASSUME NEW g \in Appliers, pc'[g] = "finalize"
               PROVE  applies'["vote"][arg'[g]] = 0
    BY DEF HolderFirst
  <2>1. \/ SamePlace(g)
        \/ /\ pc[g] = "apply" /\ arg'[g] = arg[g]
           /\ arg[g] \notin finalized
           /\ UNCHANGED applies
    BY <1>3, Zenon DEF ApplierStep
  <2>2. pc[g] # "idle" /\ arg[g] \in Slots /\ arg'[g] = arg[g]
    BY <1>4, <2>1 DEF SamePlace, Control, ApplierArg
  <2>3. CASE SamePlace(g)
    <3>1. pc[g] = "finalize" /\ applies["vote"][arg[g]] = 0
      BY <1>1, <2>3 DEF HolderFirst, SamePlace
    <3>2. ~ \E h \in Appliers : pc[h] = "finalize" /\ pc'[h] = "idle"
      BY <1>1, <3>1 DEF MuHeldOnce
    <3>3. applies'["vote"][arg[g]] = applies["vote"][arg[g]]
      BY <1>3, <1>a, <2>2, <3>2, Zenon DEF AppliesStep, AppliedBy
    <3> QED
      BY <2>2, <3>1, <3>3
  <2>4. CASE arg[g] \notin finalized /\ UNCHANGED applies
    <3>1. applies["vote"][arg[g]] \in Nat
      BY <1>a, <2>2
    <3>2. ~ (applies["vote"][arg[g]] > 0)
      BY <1>1, <2>2, <2>4, Zenon DEF AppliedIsMarked
    <3>3. applies["vote"][arg[g]] = 0
      BY <3>1, <3>2
    <3> QED
      BY <2>2, <2>4, <3>3, Zenon
  <2> QED
    BY <2>1, <2>3, <2>4, Zenon
<1>13. SyncFirst'
  <2> SUFFICES ASSUME pc'["sync"] = "finalize"
               PROVE  /\ HasCompleteBlock(Head(todo).slot)'
                      /\ applies'["sync"][Head(todo').slot] = 0
    BY DEF SyncFirst
  <2>1. CASE pc["sync"] = "finalize" /\ todo' = todo
    <3>1. todo # <<>> /\ todo \in Seq(QueuedBlock)
      BY <1>4, <2>1, Zenon DEF Control, Data, SyncWork
    <3>2. Head(todo) \in QueuedBlock
      BY <3>1, HeadTailProperties
    <3>3. PICK s \in Slots : s = Head(todo).slot
      BY <3>2, QueuedBlockType, Zenon
    <3>4. HasCompleteBlock(s) /\ applies["sync"][s] = 0
      BY <1>1, <2>1, <3>3 DEF SyncFirst
    <3>5. blocks'[s] = blocks[s]
      BY <1>3, <3>4 DEF StoredKept
    <3>6. applies'["sync"][s] = applies["sync"][s]
      BY <1>3, <1>a, Zenon DEF AppliesStep, AppliedBy
    <3> QED
      BY <2>1, <3>3, <3>4, <3>5, <3>6 DEF HasCompleteBlock
  <2>2. CASE /\ ~ HasCompleteBlock(Head(todo).slot)
             /\ HasCompleteBlock(Head(todo).slot)'
             /\ Head(todo).slot \in Slots
             /\ todo' = todo /\ UNCHANGED applies
    <3>1. PICK s \in Slots : s = Head(todo).slot
      BY <2>2
    <3>2. applies["sync"][s] = 0
      BY <1>1, <1>a, <2>2, <3>1, SMTT(40) DEF SyncStored
    <3> QED
      BY <2>2, <3>1, <3>2
  <2> QED
    BY <1>3, <2>1, <2>2, Zenon DEF SyncStep
<1>14. AppliedOncePerPath'
  <2> SUFFICES ASSUME NEW p \in Paths, NEW s \in Slots PROVE applies'[p][s] <= 1
    BY DEF AppliedOncePerPath
  <2>1. applies[p][s] <= 1
    BY <1>1 DEF AppliedOncePerPath
  <2>2. ASSUME NEW r \in Paths, NEW t \in Slots, AppliedBy(r, t), applies[r][t] = 0
        PROVE  applies'[p][s] <= 1
    <3>1. CASE p = r /\ s = t
      <4>1. applies'[p][s] = 0 + 1
        BY <2>2, <3>1, Zenon DEF AppliedBy
      <4>2. 0 + 1 <= 1
        OBVIOUS
      <4> QED
        BY <4>1, <4>2, Zenon
    <3>2. CASE p # r \/ s # t
      BY <2>1, <2>2, <3>2 DEF AppliedBy
    <3> QED
      BY <3>1, <3>2
  <2>3. CASE UNCHANGED <<applies, finalized>>
    BY <2>1, <2>3
  <2>4. ASSUME NEW g \in Appliers, pc[g] = "finalize", AppliedBy("vote", arg[g])
        PROVE  applies'[p][s] <= 1
    <3>1. arg[g] \in Slots /\ applies["vote"][arg[g]] = 0
      BY <1>1, <2>4 DEF HolderFirst, AppliedBy
    <3> QED
      BY <2>2, <2>4, <3>1 DEF Paths
  <2>5. ASSUME pc["sync"] = "finalize", AppliedBy("sync", Head(todo).slot)
        PROVE  applies'[p][s] <= 1
    <3>1. Head(todo).slot \in Slots /\ applies["sync"][Head(todo).slot] = 0
      BY <1>1, <2>5 DEF SyncFirst, AppliedBy
    <3> QED
      BY <2>2, <2>5, <3>1 DEF Paths
  <2> QED
    BY <1>3, <2>3, <2>4, <2>5, Zenon DEF AppliesStep
<1>15. FinalityIsJustified'
  <2> SUFFICES ASSUME NEW s \in finalized'
               PROVE  /\ HasCompleteBlock(s)'
                      /\ ~ blocks'[s].invalid
                      /\ applies'["sync"][s] > 0 \/ QuorumNow(s)
    BY DEF FinalityIsJustified, QuorumNow
  <2>s. s \in Slots
    BY <1>4, Zenon DEF Data
  <2>1. CASE s \in finalized
    <3>1. /\ HasCompleteBlock(s) /\ ~ blocks[s].invalid
          /\ applies["sync"][s] > 0 \/ Cardinality(voted[s]) >= Threshold
      BY <1>1, <2>1 DEF FinalityIsJustified
    <3>2. blocks'[s] = blocks[s]
      BY <1>3, <2>s, <3>1 DEF StoredKept
    <3>3. applies["sync"][s] > 0 => applies'["sync"][s] > 0
      <4>1. \/ applies'["sync"][s] = applies["sync"][s]
            \/ applies'["sync"][s] = applies["sync"][s] + 1
        BY <1>3, <1>a, <2>s, Zenon DEF AppliesStep, AppliedBy
      <4>2. PICK k \in Nat : k = applies["sync"][s]
        BY <1>a, <2>s
      <4> QED
        BY <4>1, <4>2
    <3>4. Cardinality(voted[s]) >= Threshold => QuorumNow(s)
      BY <1>3, <1>4, <2>s, QuorumKept
    <3>5. HasCompleteBlock(s)'
      BY <3>1, <3>2 DEF HasCompleteBlock
    <3>6. ~ blocks'[s].invalid
      BY <3>1, <3>2, Zenon
    <3> QED
      BY <3>1, <3>3, <3>4, <3>5, <3>6, Zenon
  <2>2. ASSUME s \notin finalized, NEW g \in Appliers, pc[g] = "finalize",
               AppliedBy("vote", arg[g])
        PROVE  /\ HasCompleteBlock(s)' /\ ~ blocks'[s].invalid /\ QuorumNow(s)
    <3>1. s = arg[g] /\ ~ blocks[s].invalid /\ blocks' = blocks
      BY <2>2, Zenon DEF AppliedBy
    <3>2. HasCompleteBlock(s) /\ Cardinality(voted[s]) >= Threshold
      BY <1>1, <2>2, <3>1, Zenon DEF ApplierStored, QuorumSeen
    <3>3. QuorumNow(s)
      BY <1>3, <1>4, <2>s, <3>2, QuorumKept
    <3>4. HasCompleteBlock(s)'
      BY <3>1, <3>2, Zenon DEF HasCompleteBlock
    <3>5. ~ blocks'[s].invalid
      BY <3>1, Zenon
    <3> QED
      BY <3>3, <3>4, <3>5
  <2>3. ASSUME s \notin finalized, pc["sync"] = "finalize",
               AppliedBy("sync", Head(todo).slot)
        PROVE  /\ HasCompleteBlock(s)' /\ ~ blocks'[s].invalid /\ applies'["sync"][s] > 0
    <3>1. s = Head(todo).slot /\ ~ blocks[s].invalid /\ blocks' = blocks
      BY <2>3, Zenon DEF AppliedBy
    <3>2. HasCompleteBlock(s)
      BY <1>1, <2>3, <3>1 DEF SyncFirst
    <3>3. applies'["sync"][s] > 0
      <4>1. applies'["sync"][s] = applies["sync"][s] + 1
        BY <2>3, <3>1, Zenon DEF AppliedBy
      <4>2. PICK k \in Nat : k = applies["sync"][s]
        BY <1>a, <2>s, Zenon
      <4> QED
        BY <4>1, <4>2
    <3>4. HasCompleteBlock(s)'
      BY <3>1, <3>2 DEF HasCompleteBlock
    <3>5. ~ blocks'[s].invalid
      BY <3>1, Zenon
    <3> QED
      BY <3>3, <3>4, <3>5
  <2>4. CASE UNCHANGED finalized
    BY <2>1, <2>4
  <2> QED
    BY <1>3, <2>1, <2>2, <2>3, <2>4, Zenon DEF AppliesStep
<1> QED
  BY <1>2, <1>5, <1>6, <1>7, <1>8, <1>9, <1>10, <1>11, <1>12, <1>13, <1>14, <1>15
     DEF IInv, VoteInv, BlockInv, ApplyInv

-----------------------------------------------------------------------------
\* The theorems

\* The invariant that carries the others: a stored block is kept, applyBlockMu
\* has one holder, and what each goroutine read before a step is still true.
THEOREM InductiveInvariant == Spec => []IInv
<1>1. Init => IInv
  BY InitIInv
<1>2. IInv /\ [Next]_vars => IInv'
  BY NextIInv
<1> QED
  BY <1>1, <1>2, PTL DEF Spec

\* Every reachable state of a node is well typed.
THEOREM TypeCorrect == Spec => []TypeOK
<1>1. IInv => TypeOK
  BY TypeInvTypeOK DEF IInv
<1> QED
  BY <1>1, InductiveInvariant, PTL

\* A node never publishes votes for two blocks of one slot, over any number of
\* restarts: OnBlockReceived votes for what AddBlockPending stored.
THEOREM NoDoubleVoteHolds == Spec => []NoDoubleVote
<1>1. IInv => NoDoubleVote
  BY DEF IInv, BlockInv
<1> QED
  BY <1>1, InductiveInvariant, PTL

\* applyDataToBlock applies a slot at most once, and so does processBlock.
THEOREM AppliedOncePerPathHolds == Spec => []AppliedOncePerPath
<1>1. IInv => AppliedOncePerPath
  BY DEF IInv, ApplyInv
<1> QED
  BY <1>1, InductiveInvariant, PTL

\* FinalizeBlock finalizes only a stored block that is not InvalidPoH, brought
\* by sync or voted for by Threshold distinct voters.
THEOREM FinalityJustified == Spec => []FinalityIsJustified
<1>1. IInv => FinalityIsJustified
  BY DEF IInv
<1> QED
  BY <1>1, InductiveInvariant, PTL

\* No step replaces a stored block, takes a marker back, or forgets that a vote
\* was counted: AddBlockPending, FinalizeBlock and AddVote only add.
Permanent ==
    [][\A s \in Slots :
          /\ HasCompleteBlock(s) => blocks'[s] = blocks[s]
          /\ s \in finalized => s \in finalized'
          /\ voted[s] \subseteq voted'[s]]_vars

\* What the store and the collector have recorded stays recorded, by every step
\* of every goroutine and by a crash.
THEOREM PermanentHolds == Spec => Permanent
<1>1. ASSUME IInv, [Next]_vars
      PROVE  \A s \in Slots :
               /\ HasCompleteBlock(s) => blocks'[s] = blocks[s]
               /\ s \in finalized => s \in finalized'
               /\ voted[s] \subseteq voted'[s]
  <2>1. Step
    BY <1>1, NextStep DEF IInv, VoteInv, BlockInv
  <2> QED
    BY <2>1, Zenon DEF Step, StoredKept, VotedGrows, AppliesStep, AppliedBy
<1> QED
  BY <1>1, InductiveInvariant, PTL DEF Spec, Permanent

-----------------------------------------------------------------------------
\* The life of a slot

\* A step stores at most one block, in a slot that has none.
LEMMA BlocksStep ==
    ASSUME TypeInv, [Next]_vars
    PROVE  \/ UNCHANGED blocks
           \/ \E s \in Slots, c \in Contents, bad \in BOOLEAN : AddBlockPending(s, c, bad)
<1> DEFINE Stores == \E s \in Slots, c \in Contents, bad \in BOOLEAN : AddBlockPending(s, c, bad)
<1> USE DEF durable
<1>1. ASSUME NEW s \in Slots, NEW c \in Contents \ {Empty}, OnBlockReceived(s, c) PROVE Stores
  <2>1. AddBlockPending(s, c, c \in BadPoh)
    BY <1>1, Zenon DEF OnBlockReceived
  <2>2. (c \in BadPoh) \in BOOLEAN
    OBVIOUS
  <2> QED
    BY <2>1, <2>2
<1>2. ASSUME NEW s \in Slots, NEW c \in Contents \ (BadPoh \cup {Empty}),
             BroadcastBlockWithProcessing(s, c)
      PROVE  Stores
  BY <1>2 DEF BroadcastBlockWithProcessing
<1>3. ASSUME NEW s \in FillerSlots \ OwnSlots, OnEmptyBlockReceived(s) PROVE Stores
  BY <1>3, OwnSlotsAssumption, ContentAssumption DEF OnEmptyBlockReceived, Slots
<1>4. ASSUME SyncAdd PROVE UNCHANGED blocks \/ Stores
  <2>1. Head(todo).slot \in Slots /\ Head(todo).content \in Contents
    <3>1. todo # <<>> /\ todo \in Seq(QueuedBlock)
      BY <1>4, Zenon DEF SyncAdd, TypeInv, Control, Data, SyncWork
    <3>2. Head(todo) \in QueuedBlock
      BY <3>1
    <3> QED
      BY <3>2 DEF QueuedBlock
  <2>2. PICK b : b = Head(todo)
    BY Zenon
  <2>3. UNCHANGED blocks \/ AddBlockPending(b.slot, b.content, b.content \in BadPoh)
    BY <1>4, <2>2, Zenon DEF SyncAdd
  <2>4. (b.content \in BadPoh) \in BOOLEAN
    OBVIOUS
  <2> QED
    BY <2>1, <2>2, <2>3, <2>4
<1>5. ASSUME NEW g \in Goroutines, Continue(g) PROVE UNCHANGED blocks \/ Stores
  <2>1. CASE SyncAdd
    BY <1>4, <2>1
  <2>2. CASE OwnVote(g) \/ VoteCheck \/ ApplyCheck(g) \/ ApplyFinalize(g) \/ SyncFinalize \/ SyncDone
    BY <2>2, Zenon DEF OwnVote, VoteCheck, ApplyCheck, ApplyFinalize, SyncFinalize, SyncDone
  <2> QED
    BY <1>5, <2>1, <2>2, Zenon DEF Continue
<1>6. ASSUME NEW v, NEW s, OnVoteReceived(v, s) \/ OnSyncResponseReceived(s, v) PROVE UNCHANGED blocks
  BY <1>6, Zenon DEF OnVoteReceived, OnSyncResponseReceived
<1>7. ASSUME NEW s, OnLatestSlotReceived(s) \/ ApplyFails(s) PROVE UNCHANGED blocks
  BY <1>7, Zenon DEF OnLatestSlotReceived, ApplyFails
<1>8. ASSUME SyncFails \/ CleanupOldVotes \/ StartFromLocal \/ RequestBlockSync \/ Crash
      PROVE  UNCHANGED blocks
  BY <1>8, Zenon DEF SyncFails, CleanupOldVotes, StartFromLocal, RequestBlockSync, Crash
<1>9. ASSUME UNCHANGED vars PROVE UNCHANGED blocks
  BY <1>9, Zenon DEF vars
<1> HIDE DEF Stores
<1>10. UNCHANGED blocks \/ Stores
  BY <1>1, <1>2, <1>3, <1>5, <1>6, <1>7, <1>8, <1>9, Zenon DEF Next
<1> QED
  BY <1>10, Zenon DEF Stores

\* Storing a block is Add, applying one is Finalize.
LEMMA StoreStep == ASSUME IInv, [Next]_vars PROVE [Store!SNext]_(Store!svars)
<1> DEFINE rec == [s \in 0 .. MaxSlot |-> RecordOf(s)]
           fin == finalized \cup {0}
<1>1. Step
  BY NextStep DEF IInv, VoteInv, BlockInv
<1>2. /\ \A s \in Slots : s \in 0 .. MaxSlot /\ s # 0
      /\ \A s \in 0 .. MaxSlot : s # 0 => s \in Slots
  BY SlotAssumption DEF Slots
<1>3. CASE UNCHANGED <<blocks, finalized>>
  BY <1>3 DEF Store!svars, RecordOf, StatusOf, HasCompleteBlock
<1>4. ASSUME NEW s \in Slots, NEW c \in Contents, NEW bad \in BOOLEAN, AddBlockPending(s, c, bad),
             UNCHANGED finalized
      PROVE  Store!SNext
  <2>1. ~ HasCompleteBlock(s) /\ HasCompleteBlock(s)' /\ blocks'[s].content = c
        /\ \A k \in Slots : k # s => blocks'[k] = blocks[k]
    <3>1. Data
      BY DEF IInv, TypeInv
    <3>2. blocks' = [blocks EXCEPT ![s] = Block(c, bad)] /\ DOMAIN blocks = Slots
      BY <1>4, <3>1 DEF AddBlockPending, Data
    <3>3. Block(c, bad).content = c
      BY DEF Block
    <3> QED
      BY <1>4, <3>1, <3>2, <3>3, AddBlockStep
  <2>2. s \notin finalized
    BY <2>1, Zenon DEF IInv, FinalityIsJustified
  <2>3. RecordOf(s)' = [content |-> c, status |-> "pending"]
    BY <1>2, <1>4, <2>1, <2>2 DEF RecordOf, StatusOf
  <2>4. \A k \in 0 .. MaxSlot : k # s => RecordOf(k)' = RecordOf(k)
    BY <1>2, <1>4, <2>1, Zenon DEF RecordOf, StatusOf, HasCompleteBlock
  <2>5. RecordOf(s).status = "none"
    BY <1>2, <2>1 DEF RecordOf, StatusOf
  <2>6. rec' = [rec EXCEPT ![s] = [content |-> c, status |-> "pending"]] /\ rec[s].status = "none"
    BY <1>2, <2>3, <2>4, <2>5
  <2>7. Store!Add(s, c)
    BY <1>4, <2>6, Zenon DEF Store!Add, Store!HasBlock, Store!Pending
  <2> QED
    BY <1>2, <2>7, Zenon DEF Store!SNext, Store!Slots
<1>5. ASSUME NEW s \in Slots, HasCompleteBlock(s), blocks' = blocks, finalized' = finalized \cup {s}
      PROVE  Store!SNext
  <2>1. RecordOf(s) = [content |-> blocks[s].content, status |-> StatusOf(s)]
        /\ RecordOf(s)' = [content |-> blocks[s].content, status |-> "finalized"]
    BY <1>2, <1>5 DEF RecordOf, StatusOf, HasCompleteBlock
  <2>2. [RecordOf(s) EXCEPT !.status = "finalized"] = RecordOf(s)'
    BY <2>1
  <2>3. \A k \in 0 .. MaxSlot : k # s => RecordOf(k)' = RecordOf(k)
    BY <1>5 DEF RecordOf, StatusOf, HasCompleteBlock
  <2>4. RecordOf(s).status # "none"
    BY <1>5, <2>1 DEF StatusOf
  <2>5. rec' = [rec EXCEPT ![s].status = "finalized"] /\ rec[s].status # "none"
    BY <1>2, <2>2, <2>3, <2>4
  <2>6. fin' = fin \cup {s}
    BY <1>5
  <2>7. Store!Finalize(s)
    BY <2>5, <2>6, Zenon DEF Store!Finalize, Store!HasBlock
  <2> QED
    BY <1>2, <2>7, Zenon DEF Store!SNext, Store!Slots
<1>6. CASE finalized' # finalized
  <2>1. PICK s \in Slots : blocks' = blocks /\ finalized' = finalized \cup {s} /\ HasCompleteBlock(s)
    <3>1. ASSUME NEW g \in Appliers, pc[g] = "finalize", AppliedBy("vote", arg[g])
          PROVE  HasCompleteBlock(arg[g]) /\ arg[g] \in Slots
      BY <3>1, Zenon DEF IInv, BlockInv, ApplierStored, AppliedBy
    <3>2. ASSUME pc["sync"] = "finalize", AppliedBy("sync", Head(todo).slot)
          PROVE  HasCompleteBlock(Head(todo).slot) /\ Head(todo).slot \in Slots
      BY <3>2, Zenon DEF IInv, ApplyInv, SyncFirst, AppliedBy
    <3> QED
      BY <1>1, <1>6, <3>1, <3>2, Zenon DEF Step, AppliesStep, AppliedBy
  <2> QED
    BY <1>5, <2>1, Zenon
<1>7. CASE finalized' = finalized
  BY <1>3, <1>4, <1>7, BlocksStep, Zenon DEF IInv
<1> QED
  BY <1>6, <1>7

\* The goroutines of a node take every slot through the life SlotStore describes:
\* one block, pending, then finalized for good, whatever gossip, votes, sync,
\* failing writes and crashes come in which order.
THEOREM NodeFollowsSlotStore == Spec => FollowsSlotStore
<1>1. Init => Store!SInit
  <2> SUFFICES ASSUME Init PROVE Store!SInit
    OBVIOUS
  <2>1. \A s \in 0 .. MaxSlot : s # 0 => s \in Slots
    BY SlotAssumption DEF Slots
  <2>2. ASSUME NEW s \in 0 .. MaxSlot, s # 0
        PROVE  RecordOf(s) = [content |-> "none", status |-> "none"]
    <3>1. blocks[s] = NoBlock /\ NoBlock.content = NoContent
      BY <2>1, <2>2 DEF Init, NoBlock
    <3>2. StatusOf(s) = "none"
      BY <3>1 DEF StatusOf, HasCompleteBlock
    <3> QED
      BY <2>2, <3>1, <3>2 DEF RecordOf, NoContent
  <2>3. finalized \cup {0} = {0}
    BY DEF Init
  <2> QED
    BY <2>2, <2>3 DEF Store!SInit, Store!Slots, Store!Finalized, Store!NoBlock, RecordOf
<1>2. IInv /\ [Next]_vars => [Store!SNext]_(Store!svars)
  BY StoreStep
<1> QED
  BY <1>1, <1>2, InductiveInvariant, PTL DEF Spec, FollowsSlotStore, Store!SSpec
=============================================================================
