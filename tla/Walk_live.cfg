SPECIFICATION FairSpec
CONSTANTS
    Last = 2
    Tile <- MCTile
    Dir <- MCDir
    Beside <- MCBeside
    Walls <- MCWalls
    Routes <- MCRoutes
    SeqMod = 4
    InFlightMax = 2
    ReplansMax = 0
    DropsSome = TRUE
    MaxInputs = 2
    MaxPlans = 1
PROPERTIES
    ComesToRest
CHECK_DEADLOCK FALSE
