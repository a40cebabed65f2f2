\* The same: a port that comes back lets every write return.
CONSTANTS
    Threads = {"worker", "listener"}
    Lengths = {1, 3}
    MaxLines = 2
    MaxOutages = 1
SPECIFICATION FairPortSpec
PROPERTIES
    WriteReturns
CHECK_DEADLOCK FALSE
