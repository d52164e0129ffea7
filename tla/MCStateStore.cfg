SPECIFICATION Spec
CONSTANTS
    p1 = p1
    p2 = p2
    p3 = p3
    Openers = {p1, p2, p3}
    Nobody = Nobody
    NewestBuild = 2
    MaxCrashes = 2
INVARIANTS
    TypeOK
    SchemaWhole
PROPERTIES
    EveryOpenerGetsIn
    ImplementsAtomicMigration
CHECK_DEADLOCK FALSE
