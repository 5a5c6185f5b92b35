CONSTANTS
    RKeys = {"k"}
    Fields = {"f"}
    MaxInt = 3
    MaxTime = 1
    MaxLen = 3
SPECIFICATION RedisSpec
INVARIANT
    LRangeIsRedis
CHECK_DEADLOCK FALSE
