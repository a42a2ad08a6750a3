SPECIFICATION SyncFairSpec
CONSTANTS
    MaxSlot = 2
    Contents = {a, e}
    BadPoh = {}
    Empty = e
    Voters = {me, v1}
    Self = me
    Total = 3
    OwnSlots = {}
    FillerSlots = {}
    Listener = FALSE
    KeepVotes = 1
    WritesFail = FALSE
    MaxCrashes = 1
PROPERTY
    CatchUpAfterCrash
CHECK_DEADLOCK FALSE
