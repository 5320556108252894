\* Three claims that read alike, the first without a figure.
SPECIFICATION Spec
CONSTANTS
    None = None
    Catalog <- Merging
    Docs <- Pages
    Sim <- AllSimilar
    Overlap <- OwnWords
    SimThreshold = 86
    LexicalThreshold = 70
    Tolerance = 5
    DateDays = 31
    MinSharedQuotes = 1
    MinOrigins = 2
    PrimaryScore = 70
    Stagnation = 1
    MaxIterations = 2
    MaxSearches = 5
    Plans <- SomePlans
    AnswerTypes = {}
    AsksForAction = FALSE
    MaxSubquestions = 2
    MaxFacets = 1
    PerFirstRound = 1
    PerGap = 1
    PerFollowup = 1
    About <- OneSubject
    TimeLimited = FALSE
    Supplied = {"openai", "tavily"}
    Environment = {"ollama"}
    Picked = {"ollama"}
    MaxAttempts = 1
    MaxUnsaved = 0
INVARIANTS DifferentValuesNeverMerged
