\* One run with one retry.
CONSTANTS
    Retries = 1
    MaxRuns = 1
SPECIFICATION Spec
INVARIANT OriginalNeverLost
