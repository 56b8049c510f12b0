\* Clients wait for their turn, and no call fails.  A graph may fail or hang,
\* a stream may be cut off and a thread deleted at any time.
SPECIFICATION FairSpec
CONSTANTS
    Threads = {t1}
    Turns = {u1, u2, u3}
    Kinds = {"send", "resume", "ws"}
    Calls <- MCCalls
    MaxChunks = 1
    Overlap = FALSE
    Faults = FALSE
    Restarts = FALSE
    None = None
INVARIANTS
    HistoryMatchesMemory
    MessagesMatchHistory
    AwaitingIsPending
    AnswerIsOwn
    DecisionsApplied
PROPERTIES
    TurnsEnd
CHECK_DEADLOCK FALSE
