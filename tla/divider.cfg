SPECIFICATION PortSpec
CONSTANTS
    XLEN = 8
    ByteModulus = 4
    LogicAlu <- MCLogicAlu
    RequestsAt <- MCRequests
    MaxRequests = 2
INVARIANTS
    AnswersRequest
    AnswersInTime
