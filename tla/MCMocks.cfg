CONSTANTS
    x = x
    y = y
    z = z
    b1 = b1
    b2 = b2
    Protocols = {"http", "ws", "grpc", "traps"}
    IDs = {x, y, z}
    Bodies = {b1, b2}
    ConfigMocks <- MCConfigMocks
    ConfigCells <- MCConfigCells
    Callers = {c1, c2}
    MaxCalls = 3
    MaxCells = 3
    k1 = k1
    k2 = k2
    Keys = {k1, k2}
    Prefixes <- MCPrefixes
    TTLs <- MCTTLs
    Getters = {g}
    Listers = {l}
    Posters = {p}
    MaxTime = 4
    Clients = {c1, c2}
    Kinds <- MCKinds
    Configured <- MCConfigured
    Rejects <- MCRejects
    Exact <- MCExact
    When <- MCWhen
    Lists <- MCLists
    StateValues = {"on", "off"}
    Recorders = {TRUE, FALSE}
    MaxChanges = 2
SPECIFICATION MCSpec
INVARIANTS
    ListsStayCoherent
    SettledConfigIsServed
    LoadedConfigIsValid
    MatchesAreExplained
PROPERTIES
    LoneCallTouchesOnlyItsMock
    RemovalIsSafe
    RecordingsAreKept
SYMMETRY CallerSymmetry
CHECK_DEADLOCK FALSE
