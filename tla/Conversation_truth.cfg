\* A message whose turn fails is remembered by the agent and by nobody else.
SPECIFICATION Spec
CONSTANTS
    Threads = {t1}
    Turns = {u1, u2}
    Kinds = {"send", "resume", "sse"}
    Calls <- MCCalls
    MaxChunks = 1
    Overlap = FALSE
    Faults = FALSE
    Restarts = FALSE
    None = None
INVARIANTS
    TraceTellsAll
CHECK_DEADLOCK FALSE
