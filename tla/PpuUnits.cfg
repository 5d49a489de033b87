SPECIFICATION UnitFairSpec
CONSTANTS
    StartCycles = 8
    TransferCycles = 40
    Spacing = 4
    Pages <- MCPages
    WIDTH = 32
    LIMIT = 3
    Oams <- MCOams
    ScxValues <- MCScx
    WxValues <- MCWx
INVARIANTS
    UnitTypeOK
    RestIsClean
    PixelsInPlace
    SpritesInPriority
    LineKeepsBounds
PROPERTIES
    CopyIsOfLastRequest
    TransferTakesItsTime
    UnitsFinish
