SPECIFICATION Spec
CONSTANTS
    q1 = q1
    q2 = q2
    Requests = {q1, q2}
    NoAnswer = NoAnswer
    NotJson = NotJson
    Bodies <- RpcBodies
    MAX_JSON_BYTES = 2
    MaxLives = 2
    MaxRevision = 3
SYMMETRY RequestSymmetry
INVARIANTS
    TypeOK
    OversizedNeverRuns
    RevisionNamesState
    UnauthorizedLearnsNothing
    SchemaValidTurnsAreJudged
    PreflightsAgree
PROPERTY TurnVerdictIsCurrent
CHECK_DEADLOCK FALSE
