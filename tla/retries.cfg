\* One run, one replica, one dispatcher: the retry budget and the deadline over several attempts.
SPECIFICATION Spec
CONSTANTS
    None = None
    Runs = {r1}
    Agents = {a1}
    Dispatchers = {d1}
    MaxAttempts = 2
    HardDeadline = 6
    CancelGrace = 0
    HeartbeatTimeout = 1
    DispatchTimeout = 1
    Slots = 1
    MaxConcurrentRuns = 1
    BackoffSeconds <- OneWait
    MaxNow = 6
    MaxClaims = 3
    MaxFaults = 1
    Keyed = {}
    Cancellable = {}
INVARIANTS RetryBudget ResumedNotRestarted IInv
PROPERTIES DeadlineKept LiveAgentKeepsRun
CHECK_DEADLOCK FALSE
