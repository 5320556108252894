\* Two attempts, the dispatcher and the api write one timeline; a client follows it over a connection that breaks.
SPECIFICATION FairSpec
CONSTANTS
    Attempts = 2
    Batch = 2
    MaxEvents = 3
    MaxBreaks = 2
INVARIANTS GapFree ClosedComplete NothingMissedWhileWaiting RevokedAttemptsSilent
PROPERTIES EachOnceInOrder EndIsDelivered
CHECK_DEADLOCK FALSE
