SPECIFICATION Spec
CONSTANTS
    StartCycles = 8
    TransferCycles = 40
    Spacing = 8
    Pages <- MCPages
INVARIANTS
    OamBlocked
