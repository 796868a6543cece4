CONSTANTS
    Added = {u}
    Edited = {u}
    Keys = {k1}
    NoKey = NoKey
    Absent = Absent
SPECIFICATION StoreSpec
INVARIANT RemovedStayRemoved
CHECK_DEADLOCK FALSE
