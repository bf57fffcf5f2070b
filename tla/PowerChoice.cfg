CONSTANTS
    None = None
    IdleThread = IdleThread
    Clients = {c1}
    Sources = {}
    MaxSources = 0
    Notifiers = {}
    MaxNotifiers = 0
    Domains = {}
    MaxRefs = 0
    Policies = {}
    NextTimeouts = {9}
    Threshold <- Thresholds
    IdleAfter = 1
    StandbyAfter = 1
    DeepAfter = 2
    MaxClock = 4
SPECIFICATION Spec
PROPERTY ExplicitChoiceKept
