\* Two subquestions at most, two rounds, two attempts, one checkpoint behind.
SPECIFICATION Spec
CONSTANTS
    None = None
    Catalog <- ThreeClaims
    Docs <- Pages
    Sim <- AllSimilar
    Overlap <- OwnWords
    SimThreshold = 86
    LexicalThreshold = 70
    Tolerance = 5
    DateDays = 31
    MinSharedQuotes = 1
    MinOrigins = 2
    PrimaryScore = 70
    Stagnation = 1
    MaxIterations = 2
    MaxSearches = 5
    Plans <- SomePlans
    AnswerTypes = {"action_plan"}
    AsksForAction = TRUE
    MaxSubquestions = 2
    MaxFacets = 2
    PerFirstRound = 1
    PerGap = 1
    PerFollowup = 1
    About <- OneSubject
    TimeLimited = FALSE
    Supplied = {"openai", "tavily"}
    Environment = {"openai", "ollama"}
    Picked = {"ollama"}
    MaxAttempts = 2
    MaxUnsaved = 1
INVARIANTS LostChargesBounded NeverHitsRecursionLimit SufficiencyIsEarned
PROPERTIES ProgressKept ResearchEnds
