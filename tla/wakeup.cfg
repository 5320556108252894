\* Two runs for one slot, two attempts, one lost connection and one failed pass.
SPECIFICATION Spec
CONSTANTS
    Runs = {r1, r2}
    MaxConcurrentRuns = 1
    Slots = 1
    MaxAttempts = 2
    MaxDrops = 1
    MaxMisses = 1
INVARIANTS NoLostWakeup
PROPERTIES QueueDrains
