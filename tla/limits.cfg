\* Three runs, a limit of two, a single slot, one dispatcher: the global limit and the accept lock.
SPECIFICATION Spec
CONSTANTS
    None = None
    Runs = {r1, r2, r3}
    Agents = {a1}
    Dispatchers = {d1}
    MaxAttempts = 2
    HardDeadline = 2
    CancelGrace = 0
    HeartbeatTimeout = 1
    DispatchTimeout = 1
    Slots = 1
    MaxConcurrentRuns = 2
    BackoffSeconds <- NoWait
    MaxNow = 1
    MaxClaims = 1
    MaxFaults = 1
    Keyed = {}
    Cancellable = {}
INVARIANTS GlobalLimit SlotsRespected
SYMMETRY Symmetry
CHECK_DEADLOCK FALSE
