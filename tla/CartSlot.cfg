SPECIFICATION SlotSpec
CONSTANTS
    Carts <- MCCarts
    Bytes <- MCBytes
    MmmRoms <- MCMmmRoms
    MmmBytes <- MCMmmBytes
INVARIANTS
    SlotTypeOK
    RomFollowsRegisters
    RamFollowsRegisters
    WindowsFollowMembers
PROPERTIES
    GameStaysInBlock
\* An emulator stops when a write throws
CHECK_DEADLOCK FALSE
