SPECIFICATION FairSpec
CONSTANTS
    Caller = {"page", "post"}
    Screen = {"page"}
    MaxSessions = 1
    MaxInputs = 6
    View = {"one", "two"}
    Act = {"lift", "drop", "use"}
    Sender <- MCSender
    Places = 2
    MaxSteps = 2
    Watched = "drop"
INVARIANTS
    TypeOK
    StoppedOrTold
PROPERTIES
    ActsTakeTurns
    LeftLoginEnds
    NobodysSessionEnds
    ActsEnd
CHECK_DEADLOCK FALSE
