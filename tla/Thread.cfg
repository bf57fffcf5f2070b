CONSTANTS
    Worker = w
    Controllers = {c1, c2}
    Waiters = {c2}
    MaxTokens = 1
    None = None
SPECIFICATION ThreadFairSpec
INVARIANTS ResumeReachesHandler SignalSeen
PROPERTIES StaysSuspended StuckOnlyBySuspend
CHECK_DEADLOCK FALSE
