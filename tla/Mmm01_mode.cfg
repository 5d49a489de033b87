SPECIFICATION MmmSpec
CONSTANTS
    MmmRoms <- MCMmmRoms
    MmmBytes <- MCMmmBytes
INVARIANTS
    ModeZeroHidesRamBank
