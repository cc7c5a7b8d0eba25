\* Every kind of server, two retries, a second run after a failed or killed one.
CONSTANTS
    Retries = 2
    MaxRuns = 2
SPECIFICATION Spec
INVARIANTS NeverPartial FailureLeavesNoDebris NeverMissing
PROPERTIES ReplacesAtomically PublishKeepsACopy
