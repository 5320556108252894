\* Three queries, two slots, two providers, three searches left: one query may be broadened.
SPECIFICATION Spec
CONSTANTS
    None = None
    tavily = tavily
    brave = brave
    s1 = s1
    s2 = s2
    Queries <- ThreeQueries
    OpenSubqs <- TwoSubquestions
    Chain <- TwoProviders
    Brave = brave
    MaxSearches = 4
    Spent = 1
    MaxParallel = 2
    Retries = 1
    Broadens = {1, 3}
    HitsOf <- ThreeHits
    Page <- PageOf
    Triage <- Scores
    Text <- Texts
    Snippet <- Snippets
    Title <- Titles
    Near <- NearTexts
    TopK = 2
    Earlier <- OneDocument
INVARIANTS BudgetNeverOvershot EveryQuerySettled NoHitLost CopiesShareOrigin
PROPERTIES RoundEnds
