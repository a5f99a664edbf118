SPECIFICATION Spec
CONSTANTS
    Functions = {"IS_QUIK_CONNECTED"}
    Settable = {"CONNECTION_STATUS_CALLBACK", "TRADE_STATUS_CALLBACK"}
    Unsets = FALSE
    CallSites = {"idle"}
    PriorRegistrations = {}
    Losable = FALSE
    Segmentation = "batch"
    MaxPipe = 3
    MaxDepth = 2
INVARIANT NoReaderStarves
CHECK_DEADLOCK FALSE
