SPECIFICATION FairSpec
CONSTANTS
    Item = {coin, bone}
    InPack = coin
    NoItem = NoItem
    MaxLifts = 2
    Punctual = TRUE
    Lying <- MCLying
    SwitchedOn = {"switched"}
    MaxInputs = 3
INVARIANTS
    TypeOK
    HandAgrees
    AgentKeptOut
    OneRunningJob
PROPERTIES
    OneItemAtATime
    HandComesFree
CHECK_DEADLOCK FALSE
