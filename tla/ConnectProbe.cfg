\* The server may fall silent after the SFTP session is set up.
SPECIFICATION SilentSpec
CONSTANTS
    Settings <- MCSettings
    Servers <- MCServers
    Retries = 1
    Tree <- MCTree
    manifestName <- MCManifest
    baseName <- MCBase
    Drives = {"C:"}
    Configurations <- MCConfigurations
    Lines <- MCLines
    Sources <- MCSources
    MaxLines = 1
    Deployments = 2
PROPERTY ConnectIsBounded
CHECK_DEADLOCK FALSE
