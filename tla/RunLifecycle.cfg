\* Two deployments of up to three exclude lines; one retry of the connection.
SPECIFICATION FairSpec
CONSTANTS
    Settings <- MCSettings
    Servers <- MCServers
    Retries = 1
    Tree <- MCTree
    manifestName <- MCManifest
    baseName <- MCBase
    Drives = {"C:"}
    Configurations <- MCConfigurations
    Lines <- MCLines
    Sources <- MCSources
    MaxLines = 3
    Deployments = 2
INVARIANTS
    TypeOK
    AttemptLeavesNothing
    CredentialsOnlyToVerified
    PinnedServerIsRecognized
    TargetsAreGuarded
    ExcludesLikeGit
    PlanIsTheWholeTree
    CleanExit
PROPERTIES
    LastLineWins
    RunEnds
CHECK_DEADLOCK FALSE
