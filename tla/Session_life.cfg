SPECIFICATION FairSpec
CONSTANTS
    c1 = c1
    c2 = c2
    Call <- MCCall
    CmdQueueCap = 1
    Character <- MCCharacter
    FirstSlot = "Ann"
    Title = {"Lady Mara"}
    NoName = "nobody"
    Reconnect = TRUE
    LongestWait = 2
    MaxFaults = 3
INVARIANTS
    TypeOK
    PlaysWhoWasNamed
PROPERTIES
    OnlyThePlayedLogIn
    LogoutIsForGood
    EveryCallEnds
    CloseEndsIt
    CallsAreKept
CHECK_DEADLOCK FALSE
