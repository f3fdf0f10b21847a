SPECIFICATION Spec
CONSTANTS
    c1 = c1
    c2 = c2
    Call <- MCCall
    CmdQueueCap = 1
    Character <- MCCharacter
    FirstSlot = "Ann"
    Title = {"Lady Mara"}
    NoName = "nobody"
    Reconnect = TRUE
    LongestWait = 2
    MaxFaults = 2
INVARIANTS
    RelogsAsPlayed
CHECK_DEADLOCK FALSE
