CONSTANTS
    a = a
    b = b
    c = c
    Handlers = {h1, h2}
    Mocks = {a, b, c}
    ConfigMocks = {a}
    NTLMMocks = {b}
    RecordMode = TRUE
    RecordedAs <- MCRecordedAs
    SeqLen <- MCSeqLen
    Exhausted <- MCExhausted
    ScenarioIDs = {1}
    ScenarioFault <- MCScenarioFault
    ScenarioPatch <- MCScenarioPatch
    DirectFaults = {"limit", "abort"}
    APIReaders = {r}
    MaxRequests = 3
    MaxResets = 1
SPECIFICATION MCSpec
INVARIANTS
    CallNumbersExact
    CallsNeverExceedCount
    LoopIsShared
PROPERTY
    CountedCallsAreLogged
SYMMETRY HandlerSymmetry
