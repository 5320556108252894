SPECIFICATION Spec
CONSTANTS
    None = None
    Ledgers <- FourLedgers
    Answers <- SomeAnswers
    Candidates <- Found
    WantsActions = TRUE
    Invented = 9
    Questions = 1
    BatchSize = 2
    Limits = {0, 1, 2}
    Asked <- Year
    Percent = 2
    Points = 50
    Days = 31
INVARIANTS OnlyVerifiedIsKept FailsOnlyWithoutFindings RemovalsAnnounced
 
