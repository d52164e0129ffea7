SPECIFICATION Spec
CONSTANTS
    q1 = q1
    q2 = q2
    Requests = {q1}
    NoAnswer = NoAnswer
    NotJson = NotJson
    Bodies <- MCBodies
    MAX_JSON_BYTES = 2
    MaxLives = 1
    MaxRevision = 3
INVARIANT SchemaValidTurnsAreRead
CHECK_DEADLOCK FALSE
