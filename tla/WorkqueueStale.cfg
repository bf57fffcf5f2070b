CONSTANTS
    Queues = {q1, q2}
    Works = {w1}
    Clients = {c1, c2}
    Submitters = {c1}
    MaxPending = 1
    Targets <- AllTargets
    NULL = NULL
SPECIFICATION Spec
INVARIANT CancellerWillBeWoken
