CONSTANTS
    WSPaths = {"a", "b"}
    WSConns = {1, 2}
    MaxChanges = 3
    MaxWSFrames = 1
SPECIFICATION WSSpec
PROPERTY
    ConnectionsUseInstalledMocks
CHECK_DEADLOCK FALSE
