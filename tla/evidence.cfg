SPECIFICATION Spec
CONSTANTS
    None = None
    Pages <- ThreePages
    Sayings <- TheirSayings
    Judgements <- TwoJudgements
    TierScore <- Tiers
    Weights <- Parts
    BatchSize = 2
    Domain = "legal"
    Profile = FALSE
    SelfPrimary = TRUE
    Start = 2900
    End = None
    Today = 3000
INVARIANTS OnlyAdmissibleCounts OrderOfAnswersIrrelevant
