CONSTANTS
    x = x
    y = y
    z = z
    b1 = b1
    b2 = b2
    Protocols = {"http"}
    IDs = {x, y, z}
    Bodies = {b1, b2}
    ConfigMocks <- MCConfigMocks
    ConfigCells <- MCConfigCells
    Callers = {c1, c2}
    MaxCalls = 2
    MaxCells = 2
SPECIFICATION Spec
PROPERTY
    ResetRestoresConfig
