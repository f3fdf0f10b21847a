SPECIFICATION Spec
CONSTANTS
    Last = 2
    Tile <- MCTile
    Dir <- MCDir
    Beside <- MCBeside
    Walls <- MCWalls
    Routes <- MCRoutes
    SeqMod = 4
    InFlightMax = 2
    ReplansMax = 1
    DropsSome = FALSE
    MaxInputs = 2
    MaxPlans = 1
INVARIANTS
    TypeOK
    AnswersNameOneRequest
    AgreesAtRest
    Consecutive
PROPERTIES
    RouteKeepsItsOrder
CHECK_DEADLOCK FALSE
