\* Two turns, one after the other: the second starts to count at zero again.
SPECIFICATION Spec
CONSTANTS
    Threads = {t1}
    Turns = {u1, u2}
    Kinds = {"send", "resume", "sse"}
    Calls <- MCCalls
    MaxChunks = 1
    Overlap = FALSE
    Faults = FALSE
    Restarts = FALSE
    None = None
INVARIANTS
    SequenceMonotonicPerThread
CHECK_DEADLOCK FALSE
