CONSTANTS
    k1 = k1
    k2 = k2
    Keys = {k1, k2}
    Prefixes <- MCPrefixes
    TTLs <- MCTTLs
    Getters = {g}
    Listers = {l}
    Posters = {p}
    MaxTime = 4
SPECIFICATION StateSpec
PROPERTY
    GetRemovesOnlyExpired
