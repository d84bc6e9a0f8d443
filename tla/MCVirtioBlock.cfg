CONSTANTS
    NQueues = 1
    MaxQueueNum = 2
    IdxSize = 4
    Addr <- MCAddr
    Cell <- MCCell
    Template <- MCTemplate
    Layout <- MCLayout
    TypeIn = 0
    TypeOut = 1
    StatusOK = 0
    StatusErr = 1
    Contents <- MCContents
    Garbage = 99
    MaxCells = 5
SPECIFICATION FairSpec
INVARIANTS
    ChainsAccounted
    UsedIsSignalled
    StoppedIsRestarted
    OneRequest
PROPERTIES
    ReadsDeliver
    NotifiedIsTaken
CHECK_DEADLOCK FALSE
