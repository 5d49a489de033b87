SPECIFICATION CoreFairSpec
CONSTANTS
    K = 4
    MaxAccesses = 2
    Bytes <- MCBytes
    Operands <- MCOperands
    DecimalOperands <- MCDecimals
    bank_a = bank_a
    bank_b = bank_b
    Banks <- MCBanks
    Probes <- MCProbes
    SmallRam = 41471
    DivStep = 2
    DivWrap = 8
    CounterWrap = 16
INVARIANTS
    OnTheGrid
    NoMissedWakeUp
    DispatchFindsInterrupt
    NextOpcodeIsPrograms
    CalculationsAgree
    LookupFindsOwner
    DivFollowsReset
PROPERTIES
    PendingIsTaken
