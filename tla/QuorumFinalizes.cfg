SPECIFICATION FairSpec
CONSTANTS
    MaxSlot = 2
    Contents = {a, e}
    BadPoh = {}
    Empty = e
    Voters = {me, v1, v2}
    Self = me
    Total = 3
    OwnSlots = {2}
    FillerSlots = {}
    Listener = FALSE
    KeepVotes = 0
    WritesFail = FALSE
    MaxCrashes = 0
PROPERTY
    QuorumFinalizes
    FollowsSlotStore
CHECK_DEADLOCK FALSE
