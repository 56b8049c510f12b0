\* Clients do as they like, calls fail and the process dies.
SPECIFICATION Spec
CONSTANTS
    Threads = {t1}
    Turns = {u1, u2}
    Kinds = {"send", "resume", "sse"}
    Calls <- MCCalls
    MaxChunks = 1
    Overlap = TRUE
    Faults = TRUE
    Restarts = TRUE
    None = None
INVARIANTS
    TypeOK
    SeenIsStored
    NoEventOutlivesThread
PROPERTIES
    LogIsKept
CHECK_DEADLOCK FALSE
