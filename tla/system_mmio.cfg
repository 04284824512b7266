SPECIFICATION TraceSpec
CONSTANTS
    XLEN = 8
    ByteModulus = 4
    LogicAlu <- MCLogicAlu
    NumRegs = 4
    NumCaps = 3
    RamSize = 16
    MmioBase = 128
    MmioSize = 24
    RegisterAt <- MCRegisterAt
    TrapVectorReset = 64
    Requests <- MCRequests
    EventAt <- MCEventAt
    MaxCycles = 5
INVARIANTS
    LogHoldsFirstOutstanding
    DoubleFaultRemembered
    OpenTrapHoldsItsCause
