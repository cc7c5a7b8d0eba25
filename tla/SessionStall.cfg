\* Two uploads over two slots against a server that may never answer.
CONSTANTS
    Files = {0, 1}
    Ops = {}
    Recovery = recovery
    None = none
    Pool = 2
    Ceiling = 2
    StartSpread = 2
    Retries = 1
    Unpinned = FALSE
    SkipUnchanged = FALSE
SPECIFICATION StallSpec
PROPERTY StallEndsPhase
