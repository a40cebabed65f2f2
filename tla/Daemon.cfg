\* Two signals, two logins, two exceptions, at any moment.
CONSTANTS
    MaxTerms = 2
    MaxLogins = 2
    MaxFailures = 2
SPECIFICATION FairSpec
INVARIANTS
    StopIsComplete ExitIsAnnounced
PROPERTIES
    HeardTermEnds NothingElseLives
CHECK_DEADLOCK FALSE
