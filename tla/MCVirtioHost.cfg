SPECIFICATION Spec
CONSTANTS
    NQueues = 2
    MaxQueueNum = 4
    IdxSize = 4
    Addr <- MCAddr
    Cell <- MCCell
    Devices <- MCDevices
    QueueNum <- MCQueueNum
    Posted <- MCPosted
    Buffers <- MCBuffers
    Layout <- MCLayout
    MaxCells = 3
    Payloads <- MCPayloads
    Sizes = {1, 2}
    ButtonsList <- MCButtonsList
    Offsets = {1}
    Wheel = {0, 1}
    Sent <- MCSent
INVARIANTS
    HostIsSignalled
PROPERTIES
    ImplementsFifo
