SPECIFICATION FairSpec
CONSTANTS
    XLEN = 8
    ByteModulus = 4
    LogicAlu <- MCLogicAlu
    StraddledInstr <- MCStraddledInstr
    NumRegs = 5
    NumCaps = 4
    RamSize = 16
    MmioBase <- MCMmioBase
    MmioSize = 112
    RegisterAt <- MCRegisterAt
    TrapVectorReset <- MCTrapVector
    Programs <- ProgressPrograms
PROPERTIES
    AlwaysRetires
    LostOnlyByCapHazard
