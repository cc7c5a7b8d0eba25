\* Two jobs, two servers, a file that holds one record.
CONSTANTS
    p1 = p1
    p2 = p2
    t1 = t1
    t2 = t2
    None = none
    Left = left
    Procs = {p1, p2}
    Targets = {t1, t2}
    Deploys <- Shared
    Outcomes <- Usual
    Works = {1, 3}
    Rtts = {0, 1}
    Settings = {1}
    Ceilings = {2}
    MaxRecords = 1
    MaxAge = 0
    MaxReuse = 1
    MaxCeilingCarry = 1
    MaxRuns = 3
    Horizon = 1
    Faults = {"kill", "io"}
SPECIFICATION FairSpec
INVARIANTS TypeOK AnchorStays MeasurementIsSpent CeilingExpires
PROPERTY RunEnds
