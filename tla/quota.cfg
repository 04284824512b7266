SPECIFICATION AgentOSSpec
CONSTANTS
    AgentId = {"manager", "coder"}
    ResourceId = {"source"}
    TokenId = {"t1", "t2"}
    Path = {"repo", "etc"}
    WithinScope <- MCWithinScope
    Permission <- MCPermission
    DELEGATE = "DELEGATE"
    Dangerous = {"DELETE"}
    Grants <- MCGrants
    MaxTime = 1
    MaxChecks = 2
INVARIANTS
    QuotaIsSpent
