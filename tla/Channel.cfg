\* Both directions: lines whole or split, two failing writes, chunked reads.
CONSTANTS
    Writers <- ThreadNames
    Settings <- SafeSettings
    Sizes <- LineSizes
    ReadSize = 2
    MaxMessages = 3
    HostLines = 2
    MaxErrors = 2
SPECIFICATION FairSpec
INVARIANTS
    DamageIsBounded
PROPERTIES
    ImplementsLineChannel EveryCommandParsed
CHECK_DEADLOCK FALSE
