SPECIFICATION HostSpec
CONSTANTS
    NoRom = NoRom
    NoFile = NoFile
    big = big
    small = small
    other = other
    plain = plain
    shared = shared
    own = own
    Roms <- MCRoms
    Paths = {shared, own}
    SavePath <- MCSavePath
    RamSize <- MCRamSize
    Values = {0, 1}
    FrameCycles = 154
    Enough = 5
    TickCycles = 10
    Wrap = 1000000
    Delays = {1, 7, 50, 200}
    LagLimit = 1000
PROPERTIES
    NeverFrameBehind
