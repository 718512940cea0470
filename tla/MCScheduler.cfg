SPECIFICATION FairSpec

CONSTANTS
    Threads = {h, g}
    Tasks = {t, u, r}
    Repeating = {r}
    MaxDelay = 2
    None = None
    Erased = Erased

INVARIANT TypeOK
PROPERTIES EveryTaskRuns StopEndsService EarlyOnlyAfterErasure
