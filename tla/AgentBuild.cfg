SPECIFICATION BuildSpec
CONSTANTS
    U1 = U1
    U2 = U2
    X = X
    Y = Y
    Key1 = Key1
    Key2 = Key2
    NoUser = NoUser
    Learned = Learned
    NoFile = NoFile
    NoLlmKey = NoLlmKey
    NoRunner = NoRunner
    NoBuild = NoBuild
    NoTurn = NoTurn
    Tenants = {U1, U2}
    AgentDir = "/agents/helper/"
    Paths <- MCPaths
    Contents = {X}
    Selections <- MCSelections
    LlmKeys = {Key1}
    SearchLimit = 2
    MaxFaults = 1
    MaxEdits = 2
    MaxStarts = 2
SYMMETRY Users
INVARIANTS BuildTypeOK AgentsUseApiStore OnePool OnlySelectedSkills NamespacesApart
PROPERTY CopyWasCurrent
\* A process that has been stopped for good and a bound that is used up.
CHECK_DEADLOCK FALSE
