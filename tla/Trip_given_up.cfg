SPECIFICATION Spec
CONSTANTS
    NoTile = NoTile
    Tile <- MCTile
    Near <- MCNear
    HiddenWalls = {"wall"}
    ShutCorners <- MCShutCorners
    Doors = {"door", "gate"}
    OpenAt <- MCOpenAt
    Locked = {"gate"}
    OpensDoors = TRUE
    Dests = {"c"}
    WaitsBlockCell = 2
    WaitsGiveUp = 3
    ReplansMax = 2
    AttemptsMax = 2
    PatchScan = 1
    PatchAnchor = 1
    MaxInputs = 3
PROPERTIES
    GivenUpIsOver
CHECK_DEADLOCK FALSE
