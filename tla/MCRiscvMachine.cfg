CONSTANTS
    MaxXl = 2
    MstatusVals <- MCMstatusVals
    MieVals <- MCMieVals
    MidelegVals <- MCMidelegVals
    MipVals <- MCMipVals
    MxlVals = {1, 2}
    Medeleg = {"user_ecall", "fault"}
    Sources = {1}
    Half = 2
    Halves = {0, 1}
    MaxTime = 1
SPECIFICATION FairSpec
INVARIANTS
    TypeOK
    SleepsWhenIdle
    TimerIsNotEarly
    LinesAreReported
PROPERTIES
    ReturnsRestore
    HandlersAreNotReentered
    SleeperWakes
    TimerIsTaken
