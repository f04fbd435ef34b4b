SPECIFICATION LogSpec
CONSTANTS
    Limits = {0, 2}
    Retains = TRUE
    MemoryLimit = 2
    MaxEntries = 5
    MaxFaults = 2
CHECK_DEADLOCK FALSE
INVARIANTS LossBound OnceInOrder DropsOldestOnly
PROPERTIES Bounded
