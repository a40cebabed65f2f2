\* Two sessions, three controls, one login, one exception, a port that comes and goes.
CONSTANTS
    Sessions = {"console", "remote"}
    MaxControls = 3
    MaxLogins = 1
    MaxFailures = 1
SPECIFICATION FairSpec
INVARIANTS
    NoEventAtShutdown
PROPERTIES
    DropIsExplained StopEnds
CHECK_DEADLOCK FALSE
