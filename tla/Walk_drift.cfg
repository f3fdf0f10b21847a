SPECIFICATION Spec
CONSTANTS
    Last = 3
    Tile <- MCTile
    Dir <- MCDir
    Beside <- MCBeside
    Walls <- MCWalls
    Routes <- MCRoutes
    SeqMod = 4
    InFlightMax = 2
    ReplansMax = 1
    DropsSome = FALSE
    MaxInputs = 3
    MaxPlans = 0
PROPERTIES
    CreditsTheTruth
CHECK_DEADLOCK FALSE
