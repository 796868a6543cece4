SPECIFICATION FairSpec
CONSTANTS
    Keys = {k1}
    Tasks = {t1, t2, t3}
    Slots = {s1, s2}
    Limits = {1, 2}
    NoSlot = NoSlot
PROPERTIES
    FirstComeFirstServed
    EveryWaitEnds
    ImplementsGate
