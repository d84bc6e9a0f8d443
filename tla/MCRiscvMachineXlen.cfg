CONSTANTS
    MaxXl = 2
    MstatusVals <- XlenMstatusVals
    MieVals <- MCMieVals
    MidelegVals <- MCMidelegVals
    MipVals <- MCMipVals
    MxlVals = {1, 2}
    Medeleg = {"user_ecall", "fault"}
    Sources = {1}
    Half = 2
    Halves = {0, 1}
    MaxTime = 1
SPECIFICATION Spec
INVARIANT XlenIsSupported
