SPECIFICATION Spec
CONSTANTS
    alice = alice
    bob = bob
    p = p
    pCopy = pCopy
    q = q
    c = c
    d = d
    e = e
    NoTx = NoTx
    Accounts <- MCAccounts
    Txs <- MCTxs
    Tx <- MCTx
    MaxTxs = 2
    NonceWindow = 2
    Uint256 = 16
    Adders = {1}
    BatchSize = 2
    MaxSlot = 3
    OwnSlots = {2}
    PeerBlocks <- MCPeerBlocks
    Submitted <- MCSubmitted
    PohFlaws = {FALSE, TRUE}
    DedupSlotGap = 2
    InitialBalance <- MCInitialBalance
    FirstContents <- MCFirstContents
    MaxRounds = 1
    MaxCrashes = 1
CHECK_DEADLOCK FALSE
INVARIANTS
    TypeOK
    PoolConsistent
    
    SupplyConserved
    ContentsDoNotFork
    
PROPERTY
    KeepsAccountBook
