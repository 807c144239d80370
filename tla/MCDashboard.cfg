SPECIFICATION Spec

CONSTANTS
    POLL_INTERVAL = 3
    RPC_TIMEOUT = 1
    ANSWER_DELAY = 1
    LABEL_INTERVAL = 2
    MAX_STALENESS_SECS = 4

INVARIANTS
    UsableWithinWindow
    CriticalNoticed

PROPERTIES
    NeverBackInTime
    ReadingEnds
    LiveReturns

CHECK_DEADLOCK FALSE
