SPECIFICATION Spec
CONSTANTS
    MaxSlot = 2
    Contents = {a, e}
    BadPoh = {}
    Empty = e
    Voters = {me, v1, v2}
    Self = me
    Total = 3
    OwnSlots = {}
    FillerSlots = {}
    Listener = FALSE
    KeepVotes = 1
    WritesFail = FALSE
    MaxCrashes = 0
INVARIANT
    AppliedOnce
CHECK_DEADLOCK FALSE
