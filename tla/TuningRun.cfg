\* Two deployments, up to four workers and four connections; the controller sees a
\* throughput that stays, doubles or cannot be measured.
CONSTANTS
    Sizes <- LargeThenSmall
    MaxConnections = 4
    MaxConcurrency = 4
    MinSamples = 2
    Rates = {0, 1, 2}
    Inherited = {0, 2}
    Pins = {0, 2}
SPECIFICATION FairSpec
INVARIANTS TypeOK CeilingHolds
PROPERTIES GrowthIsCashed FollowsPolicy RunReports
\* A run ends; RunReports says that it does not stop before.
CHECK_DEADLOCK FALSE
