SPECIFICATION Spec
CONSTANTS
    MaxSlot = 3
    Contents = {a}
    Genesis = a
    KeepRecent = 0
    Threads = {t1}
    MaxLockDeletes = 1
    Absent = Absent
INVARIANT PersistedLatestIsLatest
