SPECIFICATION Spec
CONSTANTS
    Carts <- MCMbc5
    Bytes <- MCBytes
INVARIANTS
    BankIsObeyed
\* An emulator stops when a write throws
CHECK_DEADLOCK FALSE
