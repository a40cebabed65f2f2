\* Linux: the worker loses the race against a version change (VDSM without versioning).
CONSTANTS
    NoUser = NoUser
    Unreported = Unreported
    u1 = u1
    Users <- TwoUsers
    NoMessage = NoMessage
    HostCommands <- ReportCommands
    Windows = FALSE
    Rates <- ShortRates
    LogonRetries = 1
    MaxCommands = 2
    MaxQueued = 1
    MaxUserChanges = 0
    MaxSessionEvents = 0
    MaxFailures = 0
SPECIFICATION Spec
INVARIANTS
    NeverLate
CHECK_DEADLOCK FALSE
