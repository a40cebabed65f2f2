\* Two logins, three clients, one failure; fair threads.
CONSTANTS
    c1 = c1
    c2 = c2
    c3 = c3
    Client <- Greeters
    Root <- RootGreeters
    NoClient = NoClient
    Backlog = 2
    MaxRequests = 2
    MaxFailures = 1
SPECIFICATION FairSpec
INVARIANTS
    RightCredentials DeliveredOnce BusyOnlyInside
PROPERTIES
    LoginReturns AcceptedIsServed
CHECK_DEADLOCK FALSE
