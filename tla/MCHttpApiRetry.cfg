SPECIFICATION Spec
CONSTANTS
    ResponseIds = {r1, r2}
    NoId = NoId
    RouteTables <- MCRouteTables
    Models <- MCModels
    UpstreamFrames <- MCUpstreamFrames
    MaxAnswers = 3
INVARIANT RetryableBeforeAnyItem
CHECK_DEADLOCK FALSE
