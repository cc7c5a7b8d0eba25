\* The limit is met by a take of the second deployment's prune, by the third one's
\* reservation or by the take of its collision pre-pass.
CONSTANTS
    f1 = f1
    f2 = f2
    f3 = f3
    d1 = d1
    d2 = d2
    d3 = d3
    d4 = d4
    d5 = d5
    d6 = d6
    Limit = 5
    Last = 3
    Clean = {1}
    Files = {f1, f2, f3}
    Dirs = {d1, d2, d3, d4, d5, d6}
    In <- ThreeIn
    Colliding = {f2, f3}
    Turned = {d2, d6}
    Depth <- ThreeDepth
SPECIFICATION Spec
INVARIANT MaxDeletesHolds
