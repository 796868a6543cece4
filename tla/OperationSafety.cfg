SPECIFICATION Spec
CONSTANTS
    Identities = {i1}
    Ops = {o1, o2}
    Platform = Platform
    None = None
    Limits = {1, 2}
    Threshold = 2
    Events = {"disabled", "upsert", "update", "delete", "policy", "probe", "pause", "pause_outside", "cancel", "named", "failure"}
    MaxRestarts = 1
SYMMETRY Symmetry
INVARIANTS TypeOK LeasesMatchRows RowsSettle
PROPERTIES CooldownDiscipline
