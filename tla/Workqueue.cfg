CONSTANTS
    Queues = {q1}
    Works = {w1, w2}
    Clients = {c1, c2}
    Submitters = {c1, c2}
    MaxPending = 1
    Targets <- AllTargets
    NULL = NULL
SPECIFICATION FairSpec
INVARIANTS BackpointerExact ReleasedUnreferenced WorkerSleepsIdle CancellerWillBeWoken CancelledNeverRuns DrainedBeforeDestroy
PROPERTIES SubmittedComesBack CallsReturn
