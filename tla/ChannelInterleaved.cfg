\* Two threads write while the port may take part of a line: lines mix.
CONSTANTS
    Writers <- ThreadNames
    Settings <- SplitSettings
    Sizes <- LineSizes
    ReadSize = 2
    MaxMessages = 1
    HostLines = 0
    MaxErrors = 0
SPECIFICATION Spec
INVARIANTS
    DamageIsBounded
CHECK_DEADLOCK FALSE
