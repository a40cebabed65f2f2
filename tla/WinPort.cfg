\* Two threads that share the structure, over a port that fails and comes back.
CONSTANTS
    Threads = {"worker", "listener"}
    Lengths = {1, 3}
    MaxLines = 2
    MaxOutages = 1
SPECIFICATION FairPortSpec
INVARIANTS
    EveryLineArrives AloneIsExact
CHECK_DEADLOCK FALSE
