\* Two concurrent calls, two keys, one retry and one repair: the selected provider comes first.
SPECIFICATION Spec
CONSTANTS
    None = None
    Calls = {c1, c2}
    p1 = p1
    p2 = p2
    Providers = {p1, p2}
    Chain <- TwoKeys
    Selected = p2
    Offered = {p1}
    AllowFallback = TRUE
    Retries = 1
    RepairRetries = 1
    Embeds = {p1}
    Batches = 1
INVARIANTS RequestsBounded NoProviderSkipped
PROPERTIES StopIffNoKeyLeft EveryCallEnds
