SPECIFICATION FairSpec
CONSTANTS
    LINES = 2
    LAST = 4
    LineLength = 456
    OamSearch = 80
    PowerOn = 74
    Render = {173}
    Spacing = 8
    LycValues = {0, 1}
    StatValues <- MCStatValues
    IeValues <- MCIeValues
INVARIANTS
    TypeOK
    RegistersFollowLoop
    LinesFollowRegisters
PROPERTIES
    ModeSequence
    VBlankRequestedOncePerFrame
    LcdIsObeyed
