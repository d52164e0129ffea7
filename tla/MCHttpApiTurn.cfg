SPECIFICATION Spec
CONSTANTS
    ResponseIds = {r1, r2}
    NoId = NoId
    RouteTables <- MCRouteTables
    Models <- MCModels
    UpstreamFrames <- MCUpstreamFrames
    MaxAnswers = 3
INVARIANTS
    TypeOK
    SentToSoleRoute
    VerdictIsUpstreams
    RetryableIffTransient
PROPERTY ImplementsValidatedStream
CHECK_DEADLOCK FALSE
