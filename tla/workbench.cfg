SPECIFICATION Spec
CONSTANTS
    s1 = s1
    s2 = s2
    Empty = Empty
    NoProgram = NoProgram
    Malformed = Malformed
    NoScenario = NoScenario
    Scenario = {s1, s2}
    Custom = {Empty}
    FirstScenario = s1
    Hint = {1}
    Length <- MCLength
    Traps <- MCTraps
    Stores <- MCStores
    MaxSteps = 2
    Call = {c1, c2}
    Tab = {"lab2", "lab5"}
    MaxSamples = 2
    MaxRequests = 2
    MaxMoves = 2
    MaxLost = 1
INVARIANTS
    CarefulUserSeesEngine
    CarefulCopiesAgree
    SelectorNamesProgram
    ScopeFollowsDisplay
CHECK_DEADLOCK FALSE
