SPECIFICATION FairSpec
CONSTANTS
    Slot = {healer, task, gather}
    Watched = healer
    SlotsMax = 3
    IterationsMax = 2
    MaxInputs = 3
INVARIANTS
    TypeOK
    OneScriptASlot
    EachEndIsToldOnce
    NoRunTooMany
PROPERTIES
    NoneIsStarved
CHECK_DEADLOCK FALSE
