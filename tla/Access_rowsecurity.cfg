SPECIFICATION ComponentsSpec
CONSTANTS
    Parts = {"access"}
    Http = Http
    Socket = Socket
    K1 = K1
    K2 = K2
    S1 = S1
    U1 = U1
    U2 = U2
    PromptA = PromptA
    PromptB = PromptB
    E1 = E1
    W1 = W1
    W2 = W2
    UrlA = UrlA
    UrlB = UrlB
    SecretA = SecretA
    SecretB = SecretB
    L1 = L1
    L2 = L2
    R1 = R1
    Nothing = Nothing
    Nil = Nil
    NoPrompt = NoPrompt
    NoSettings = NoSettings
    NoRun = NoRun
    MasterKey = MasterKey
    Callers = {Http, Socket}
    Sockets = {Socket}
    Tokens <- MCTokens
    ApiKeys = {S1}
    Principals = {U1, U2}
    Kids = {K1, K2}
    Published <- MCPublished
    JwksTTL = 1
    FetchTimeout = 1
    MaxClock = 2
    Credentials <- MCCredentials
    Deployments <- MCRowSecurity
    DbFaults = TRUE
    Prompts = {PromptA, PromptB}
    Editors = {E1}
    Attempts = 3
    CacheSize = 1
    CacheTTL = 1
    MaxVersions = 2
    PromptClock = 2
    Owners = {U1}
    Urls = {UrlA, UrlB}
    Secrets = {SecretA, SecretB}
    Inputs <- MCInputs
    Writers = {W1, W2}
    Configured = {TRUE, FALSE}
    MaxBoots = 1
    Legacy = {L1, L2}
    Recent = {R1}
    Role <- MCRole
    Targets = {2, 4, 5, 6, 12}
    MaxRuns = 5
    CallIds = {1, 2, 3, 4}
    Tools = {"write", "send"}
    Actions = {"approve", "reject"}
    Interrupts <- MCTurns
    UserCredentials = {"credential"}
    Loads <- MCLoads
    Documents <- MCDocuments
INVARIANT ActiveKeyAuthenticates
\* The clock stops at its bound.
CHECK_DEADLOCK FALSE
