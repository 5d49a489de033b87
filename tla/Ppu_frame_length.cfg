SPECIFICATION Spec
CONSTANTS
    LINES = 144
    LAST = 153
    LineLength = 456
    OamSearch = 80
    PowerOn = 74
    Render = {173}
    Spacing = 200000
    LycValues = {0}
    StatValues <- NoSource
    IeValues <- NoSource
PROPERTIES
    FrameLength
