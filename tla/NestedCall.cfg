SPECIFICATION Spec
CONSTANTS
    Functions = {"IS_QUIK_CONNECTED", "CONNECT"}
    Settable = {"CONNECTION_STATUS_CALLBACK"}
    Unsets = FALSE
    CallSites = {"idle", "callback"}
    PriorRegistrations = {}
    Losable = FALSE
    Segmentation = "message"
    MaxPipe = 3
    MaxDepth = 3
INVARIANT NoAssertFails
CHECK_DEADLOCK FALSE
