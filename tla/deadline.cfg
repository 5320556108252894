\* One run, a fair watchdog and clock, no help from the agent: the deadline is enforced.
SPECIFICATION FairSpec
CONSTANTS
    None = None
    Runs = {r1}
    Agents = {a1}
    Dispatchers = {d1}
    MaxAttempts = 2
    HardDeadline = 1
    CancelGrace = 1
    HeartbeatTimeout = 1
    DispatchTimeout = 1
    Slots = 1
    MaxConcurrentRuns = 1
    BackoffSeconds <- NoWait
    MaxNow = 3
    MaxClaims = 2
    MaxFaults = 1
    Keyed = {r1}
    Cancellable = {}
PROPERTIES DeadlineEnforced
CHECK_DEADLOCK FALSE
