CONSTANTS
    None = None
    NoLease = NoLease
    Threads = {"coordinator", "worker"}
    Leases = {"raw", "temporary"}
    MaxChanges = 2
    Owners = {o1, o2}
    Slots = {h1}
SYMMETRY Interchangeable
SPECIFICATION Spec
INVARIANTS OwnersExact WriterAlone HandlesAccounted FilesKeepWritersOut StagingIntact PendingExact
PROPERTY FailsClosed
