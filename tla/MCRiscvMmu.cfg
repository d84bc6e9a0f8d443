CONSTANTS
    Pages <- MCPages
    RamPages = {0, 1}
    FbPages = {1}
    TlbSize = 1
    Mappings <- MCMappings
    MstatusVals <- MCMstatusVals
    Delegated = {"irq_s", "user_ecall", "load_page_fault"}
SPECIFICATION Spec
INVARIANTS
    TypeOK
    CachedArePermitted
    FencesAreObeyed
    AccessesAreRecorded
    ChangesAreShown
