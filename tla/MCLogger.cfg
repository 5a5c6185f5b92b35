CONSTANTS
    Writers = {w1, w2}
    Waiters = {q}
    Streams = {sse}
    m1 = m1
    m2 = m2
    q = q
    sse = sse
    Mocks = {m1, m2}
    Watched <- MCWatched
    Want <- MCWant
    MaxEntries = 2
    ChanCap = 1
    MaxLogs = 3
SPECIFICATION FairSpec
INVARIANTS
    NoLostWakeup
    StreamsDoNotRepeat
PROPERTIES
    EventuallyWoken
