SPECIFICATION Spec
CONSTANTS
    r1 = r1
    r2 = r2
    NoId = NoId
    ResponseIds <- MCResponseIds
    ProviderEvents <- MCProviderEvents
    ProviderErrors <- MCProviderErrors
    MaxItems = 4
CHECK_DEADLOCK FALSE
INVARIANTS
    TypeOK
    FaithfulRelay
    OneTerminalLast
PROPERTIES
    TerminalEndsStream
    ImplementsTurnStream
