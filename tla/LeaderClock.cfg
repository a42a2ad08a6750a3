SPECIFICATION FairSpec
CONSTANTS
    me = me
    peer = peer
    Leaders <- MCLeaders
    Schedule <- MCSchedule
    NoLeader = NoLeader
    Self = me
    HashesPerTick = 2
    TicksPerSlot = 2
    MaxEntriesPerSlot = 4
    Batches = {b1}
    NoBatch = NoBatch
    NoBlock = NoBlock
    MaxSlot = 3
    MaxWaitTicks = 2
CHECK_DEADLOCK FALSE
INVARIANTS
    TypeOK
    EntryHashesInRange
    
PROPERTY
    ReadyLeaderStoresBlock
