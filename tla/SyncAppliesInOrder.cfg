SPECIFICATION Spec
CONSTANTS
    MaxSlot = 2
    Contents = {a, e}
    BadPoh = {}
    Empty = e
    Voters = {me, v1}
    Self = me
    Total = 3
    OwnSlots = {}
    FillerSlots = {1}
    Listener = FALSE
    KeepVotes = 1
    WritesFail = FALSE
    MaxCrashes = 0
PROPERTY
    SyncAppliesInOrder
CHECK_DEADLOCK FALSE
