CONSTANTS
    c1 = c1
    c2 = c2
    alice = alice
    bob = bob
    p1 = p1
    f1 = f1
    f2 = f2
    m1 = m1
    m2 = m2
    box = box
    spam = spam
    promo = promo
    work = work
    m = m
    http = http
    kv = kv
    f = f
    g = g
    global = global
    mock = mock
    IDs = {1, 2, 3}
    Mocks = {m}
    Protocols = {http, kv}
    Faults = {f, g}
    NoFault = NoFault
    Definitions <- MCDefinitions
    Updaters = {u}
    Item = {a, b, c}
    MaxSize = 3
    Zero = Zero
    FTPConns = {c1, c2}
    FTPUsers = {alice, bob}
    Allowed <- MCAllowed
    Paths = {p1}
    FileIDs = {f1, f2}
    Catalogs <- MCCatalogs
    PassivePorts = {1}
    Clients = {c1, c2}
    SubIDs = {1, 2}
    Dests = {d1, d2}
    MaxFrames = 4
    MaxRequests = 3
    MailUsers = {alice}
    Names = {box, spam}
    MaxVersion = 3
    LDAPUsers = {alice, bob}
    LDAPMocks = {m1, m2}
    AllowedMockIDs <- MCAllowedMockIDs
    LDAPConfigs <- MCLDAPConfigs
    MaxSearches = 2
    Sessions = {c1, c2}
    Addresses = {promo, work}
    Senders = {alice, bob}
    RuleSets <- MCRuleSets
    MaxMails = 2
    MaxTo = 2
    Channels = {1, 2}
    RoutingKeys = {"k1"}
    Queues = {"q1", "q2"}
    Bindings <- MCBindings
    MaxPublishes = 2
    MaxBody = 2
    Setters = {c1, c2}
    QueueMocks = {"q1", "q2"}
    PlainMocks = {"p1", "p2"}
    MockLists <- MCMockLists
    MaxMessages = 1
    WSPaths = {"a", "b"}
    WSConns = {c1, c2}
    MaxChanges = 3
    MaxWSFrames = 2
SPECIFICATION MCSpec
INVARIANTS
    ActiveAreDefined
    FaultInForceIsDetermined
    
    NoListenerLeaks
    
    SearchesAreExact
    StoredMailIsOwn
    PublishesAreWhole
    SubscribersAreServed
    ExchangesAreAccounted
    AgentAnswersAreRight
    MatchersAreRight
PROPERTIES
    RefinesBoundedStore
    RateLimitIsKept
    MailIsAsSelected
    SubscriptionsFollowMocks
    ConnectionsKeepTheirMock
    KeysAreAsWritten
SYMMETRY Symmetry
CHECK_DEADLOCK FALSE
