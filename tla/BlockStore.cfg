SPECIFICATION Spec
CONSTANTS
    MaxSlot = 2
    Contents = {a, b}
    Genesis = a
    KeepRecent = 0
    Threads = {t1, t2}
    MaxLockDeletes = 1
    Absent = Absent
SYMMETRY ThreadSymmetry
INVARIANTS
    TypeOK
    LatestFinalizedIsFinalized
    DbLatestStoreIsStored
    MarkerMatchesStatus
PROPERTY ImplementsSlotStore
