SPECIFICATION FairSpec
CONSTANTS
    Tasks = {1, 2, 3}
    Pausable = {1, 2}
    Workers = {w1}
    None = None
    Lanes = 2
    Units = 2
    MaxRestarts = 1
    MaxEntries = 3
    ClientCloses = TRUE
PROPERTIES PendingStarts TasksEnd
CHECK_DEADLOCK FALSE
