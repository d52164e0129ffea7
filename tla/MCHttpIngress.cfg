SPECIFICATION HSpec
CONSTANTS
    h1 = h1
    w1 = w1
    r1 = r1
    NoId = NoId
    NotJson = NotJson
    NoTurn = NoTurn
    NoItem = NoItem
    NoCall = NoCall
    HttpTasks = {h1}
    WsTasks = {w1}
    Capabilities = {"good"}
    Capability = "good"
    ResponseIds = {r1}
    Payloads <- MCPayloads
    RoutableModels = {"router/gpt", "xai/grok", "claude/opus"}
    ProviderEvents <- MCProviderEvents
    ProviderErrors <- HttpErrors
    MaxEvents = 2
    Routes <- MCRoutes
    Slug <- MCSlug
    UpstreamFrames <- MCUpstreamFrames
INVARIANTS
    ExchangeUnderLease
    OneExchangePerTurn
PROPERTIES
    CompletionIsUpstreams
    ExchangeEnds
    ImplementsIngress
    AnswersWithUpstream
