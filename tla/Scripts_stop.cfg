SPECIFICATION Spec
CONSTANTS
    Slot = {healer, task}
    Watched = healer
    SlotsMax = 2
    IterationsMax = 1
    MaxInputs = 2
INVARIANTS
    TheSessionGoesOn
CHECK_DEADLOCK FALSE
