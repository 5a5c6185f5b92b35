SPECIFICATION WatchSpec
INVARIANT
    IndexIsServedAtItsDirectory
CHECK_DEADLOCK FALSE
