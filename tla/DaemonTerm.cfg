\* A signal meets the credential server before its loop.
CONSTANTS
    MaxTerms = 1
    MaxLogins = 0
    MaxFailures = 0
SPECIFICATION FairSpec
PROPERTIES
    TermIsObeyed
CHECK_DEADLOCK FALSE
