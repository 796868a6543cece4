SPECIFICATION Spec
CONSTANTS
    Tasks = {1, 2}
    Pausable = {1}
    Workers = {w1, w2}
    None = None
    Lanes = 1
    Units = 1
    MaxRestarts = 0
    MaxEntries = 3
    ClientCloses = TRUE
PROPERTIES CanceledStays
CHECK_DEADLOCK FALSE
