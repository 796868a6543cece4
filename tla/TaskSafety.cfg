SPECIFICATION Spec
CONSTANTS
    Tasks = {1, 2, 3}
    Pausable = {1}
    Workers = {w1, w2}
    None = None
    Lanes = 2
    Units = 2
    MaxRestarts = 1
    MaxEntries = 3
    ClientCloses = TRUE
INVARIANTS TypeOK PausedIsQuiet OneExecution WaitIsResumable PendingIsQueued
PROPERTIES PauseHonoured StopKeepsBatches UnitsStartWhileRunning OutcomeStands
SYMMETRY Symmetry
CHECK_DEADLOCK FALSE
