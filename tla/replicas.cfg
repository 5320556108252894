\* One run, two replicas, one dispatcher and a client that cancels: late requests, takeovers, stale workers, every writer of a terminal status, and the refinement of RunPromise.
SPECIFICATION Spec
CONSTANTS
    None = None
    Runs = {r1}
    Agents = {a1, a2}
    Dispatchers = {d1}
    MaxAttempts = 2
    HardDeadline = 2
    CancelGrace = 0
    HeartbeatTimeout = 1
    DispatchTimeout = 1
    Slots = 1
    MaxConcurrentRuns = 1
    BackoffSeconds <- NoWait
    MaxNow = 2
    MaxClaims = 2
    MaxFaults = 0
    Keyed = {}
    Cancellable = {r1}
INVARIANTS SingleOwner
PROPERTIES OutcomeOfOwner SettledOnce ImplementsPromise
SYMMETRY Symmetry
CHECK_DEADLOCK FALSE
