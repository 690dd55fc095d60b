SPECIFICATION Spec
CONSTANTS
    Bits = 2
    Address = 1
    Calls <- MCCalls
    Registers <- MCRegisters
    MaxHolds = 2
INVARIANTS
    TypeOK
    BusFree
PROPERTIES
    ImplementsTransfer
    Returns
