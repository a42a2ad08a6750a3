SPECIFICATION Spec
CONSTANTS
    MaxSlot = 2
    Contents = {a, b, e}
    BadPoh = {b}
    Empty = e
    Voters = {me, v1, v2}
    Self = me
    Total = 3
    OwnSlots = {2}
    FillerSlots = {1}
    Listener = FALSE
    KeepVotes = 0
    WritesFail = TRUE
    MaxCrashes = 1
SYMMETRY VoterSymmetry
INVARIANTS
    TypeOK
    NoDoubleVote
    AppliedOncePerPath
    FinalityIsJustified
CHECK_DEADLOCK FALSE
