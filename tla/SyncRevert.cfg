\* Every request answered, every manifest written.
CONSTANTS
    a = a
    ab = ab
    aB = aB
    ax = ax
    axc = axc
    h1 = h1
    h2 = h2
    Paths = {a, ab, aB, ax, axc}
    Hashes = {h1, h2}
    Above <- NestedAbove
    FoldPath <- OneSpelling
    Setups <- QuietSetups
    MaxRuns = 3
SPECIFICATION Spec
INVARIANT FailureIsRecorded
