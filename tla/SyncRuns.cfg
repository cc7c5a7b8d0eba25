\* Four runs against all three setups.
CONSTANTS
    a = a
    ab = ab
    aB = aB
    ax = ax
    axc = axc
    h1 = h1
    h2 = h2
    Paths = {a, ab, aB, ax, axc}
    Hashes = {h1, h2}
    Above <- NestedAbove
    FoldPath <- OneSpelling
    Setups <- AllSetups
    MaxRuns = 4
SPECIFICATION Spec
INVARIANTS TypeOK GreenMeansMirror RetrySucceeds
PROPERTY ForeignSurvives
