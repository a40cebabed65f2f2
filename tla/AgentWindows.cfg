\* Windows: two session changes race the worker and one command.
CONSTANTS
    NoUser = NoUser
    Unreported = Unreported
    u1 = u1
    Users <- TwoUsers
    NoMessage = NoMessage
    HostCommands <- WindowsCommands
    Windows = TRUE
    Rates <- UnitRates
    LogonRetries = 1
    MaxCommands = 1
    MaxQueued = 1
    MaxUserChanges = 1
    MaxSessionEvents = 2
    MaxFailures = 1
SPECIFICATION Spec
INVARIANTS
    CacheIsHostView
CHECK_DEADLOCK FALSE
