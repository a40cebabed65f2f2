\* Windows: the command handler lacks the method the listener calls.
CONSTANTS
    NoUser = NoUser
    Unreported = Unreported
    u1 = u1
    Users <- TwoUsers
    NoMessage = NoMessage
    HostCommands <- CpuCommands
    Windows = TRUE
    Rates <- ShortRates
    LogonRetries = 1
    MaxCommands = 2
    MaxQueued = 1
    MaxUserChanges = 0
    MaxSessionEvents = 0
    MaxFailures = 0
SPECIFICATION Spec
INVARIANTS
    CpusConfirmed
CHECK_DEADLOCK FALSE
