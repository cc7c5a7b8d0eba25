\* Two uploads on the second slot and one metadata operation; the server answers.
CONSTANTS
    Files = {1, 3}
    Ops = {op}
    Recovery = recovery
    None = none
    Pool = 2
    Ceiling = 2
    StartSpread = 2
    Retries = 1
    Unpinned = FALSE
    SkipUnchanged = TRUE
SPECIFICATION FairSpec
PROPERTY AllReturn
