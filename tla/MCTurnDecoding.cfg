SPECIFICATION Spec
CONSTANT
    Requests <- MCRequests
CHECK_DEADLOCK FALSE
INVARIANTS
    AcceptedIffTurnNamed
    AskedForMetadataOnlyWhenMissing
    OwnParentWins
PROPERTIES
    RepeatKeepsTurnKey
