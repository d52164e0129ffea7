SPECIFICATION Spec
CONSTANTS
    h1 = h1
    h2 = h2
    w1 = w1
    r1 = r1
    NoId = NoId
    NotJson = NotJson
    NoTurn = NoTurn
    NoItem = NoItem
    HttpTasks = {h1, h2}
    WsTasks = {w1}
    Capabilities = {"good", "bad"}
    Capability = "good"
    ResponseIds = {r1}
    Payloads <- MCPayloads
    RoutableModels = {"m1", "m2"}
    ProviderEvents <- MCProviderEvents
    ProviderErrors <- MCProviderErrors
    MaxEvents = 1
SYMMETRY HttpSymmetry
INVARIANTS
    TypeOK
    LeaseAccounting
    NoOverlappingWork
    AnsweredOnce
    NoFabricatedSuccess
