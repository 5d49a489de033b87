SPECIFICATION Spec
CONSTANTS
    LINES = 2
    LAST = 4
    LineLength = 456
    OamSearch = 80
    PowerOn = 74
    Render = {173}
    Spacing = 8
    LycValues = {1}
    StatValues <- NoSource
    IeValues <- NoSource
INVARIANTS
    DisabledReadsAccessible
