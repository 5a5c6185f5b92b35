CONSTANTS
    sse = sse
    page = page
    quiet = quiet
    sub = sub
    feed = feed
    rpc = rpc
    chat = chat
    talk = talk
    Callers = {c1, c2}
    MaxSets = 3
    Mocks <- StreamMocks
    Protocol <- StreamProtocol
    Events <- StreamEvents
    KeepOpen <- StreamKeepOpen
    APICallers = {"caller"}
    PushCap = 2
    MaxOpen <- StreamMaxOpen
    MaxStreams = 2
    MaxCalls <- StreamMaxCalls
    MaxSends = 2
    Configurations <- ServerPairs
    Listeners = 2
    Dispatches = {1, 2}
    Retries <- WebhookRetries
    MaxSize = 3
SPECIFICATION MCSpec
INVARIANTS
    ClientsSeeStreamsInOrder
    RegistryHasOpenStreams
    StatusIsTrue
    DispatchesAreCoherent
PROPERTIES
    OvertakenAgentIsRebuilt
    StreamsProceed
    FailureEndsProgram
    DispatchesEnd
CHECK_DEADLOCK FALSE
