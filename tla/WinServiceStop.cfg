\* A stop that is taken before there is an agent.
CONSTANTS
    Sessions = {"console"}
    MaxControls = 1
    MaxLogins = 0
    MaxFailures = 0
SPECIFICATION FairSpec
PROPERTIES
    StopIsObeyed
CHECK_DEADLOCK FALSE
