SPECIFICATION Spec
CONSTANTS
    Keys = {k1, k2}
    Tasks = {t1, t2, t3, t4}
    Slots = {s1, s2, s3}
    Limits = {1, 2}
    NoSlot = NoSlot
SYMMETRY Symmetry
INVARIANTS
    TypeOK
    CapacityRespected
    NoStrandedTask
    SlotAccounting
    NoLostWakeUp
