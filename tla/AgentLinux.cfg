\* Linux: no session thread; every command and one user change.
CONSTANTS
    NoUser = NoUser
    Unreported = Unreported
    u1 = u1
    Users <- TwoUsers
    NoMessage = NoMessage
    HostCommands <- AllCommands
    Windows = FALSE
    Rates <- ShortRates
    LogonRetries = 1
    MaxCommands = 2
    MaxQueued = 1
    MaxUserChanges = 1
    MaxSessionEvents = 0
    MaxFailures = 0
SPECIFICATION Spec
INVARIANTS
    ListenerNeverLate AtMostOneLate CommandAnswered
CHECK_DEADLOCK FALSE
