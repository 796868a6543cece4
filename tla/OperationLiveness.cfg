SPECIFICATION FairSpec
CONSTANTS
    Identities = {i1, i2}
    Ops = {o1, o2, o3}
    Platform = Platform
    None = None
    Limits = {1, 2}
    Threshold = 1
    Events = {"unnamed", "pause", "abandon"}
    MaxRestarts = 0
PROPERTIES NoHeadOfLineBlocking
