SPECIFICATION LabsSpec
CONSTANTS
    Width = 8
    Operand <- MCOperand
    Vector <- MCVector
    MaxOperations = 4
    Pointers = {0, 2, 5}
    MaxPan = 3
    Typed <- MCTyped
    Slider <- MCSlider
    Scenario <- MCScenario
    Measured <- MCMeasured
    Ram = 64
    Process = {3}
    NewLength = {0, 4, 61}
    NewPerms = {2, 4}
    Delta = {3, 60, 255}
INVARIANTS
    LabsMatchHardware
    InspectorFollowsUser
    MachineLabsMatchHardware
    ComparisonIsOfSelection
    ProbeFollowsClicks
