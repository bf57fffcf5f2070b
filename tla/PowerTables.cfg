CONSTANTS
    None = None
    IdleThread = IdleThread
    Clients = {c1}
    Sources = {s1}
    MaxSources = 2
    Notifiers = {n1}
    MaxNotifiers = 2
    Domains = {d1}
    MaxRefs = 2
    Policies = {}
    NextTimeouts = {9}
    Threshold <- Thresholds
    IdleAfter = 1
    StandbyAfter = 1
    DeepAfter = 2
    MaxClock = 1
SPECIFICATION Spec
INVARIANTS SleepBracketed HeldDomainsPowered
