\* Linux under fair scheduling: reports, heartbeats, commands and the stop.
CONSTANTS
    NoUser = NoUser
    Unreported = Unreported
    u1 = u1
    Users <- TwoUsers
    NoMessage = NoMessage
    HostCommands <- LiveCommands
    Windows = FALSE
    Rates <- ShortRates
    LogonRetries = 1
    MaxCommands = 2
    MaxQueued = 1
    MaxUserChanges = 1
    MaxSessionEvents = 0
    MaxFailures = 1
SPECIFICATION FairSpec
PROPERTIES
    HostLearnsUser StopIsAnnounced HeartbeatsContinue CommandsTakenUp
CHECK_DEADLOCK FALSE
