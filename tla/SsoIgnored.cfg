\* The signal cannot be emitted: later logins are ignored for good.
CONSTANTS
    c1 = c1
    c2 = c2
    c3 = c3
    Client <- One
    Root <- One
    NoClient = NoClient
    Backlog = 2
    MaxRequests = 2
    MaxFailures = 1
SPECIFICATION Spec
PROPERTIES
    IgnoredOnlyWhileInProgress
CHECK_DEADLOCK FALSE
