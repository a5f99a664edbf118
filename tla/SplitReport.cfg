SPECIFICATION FairSpec
CONSTANTS
    Functions = {"IS_QUIK_CONNECTED"}
    Settable = {"CONNECTION_STATUS_CALLBACK"}
    Unsets = FALSE
    CallSites = {"idle"}
    PriorRegistrations = {}
    Losable = FALSE
    Segmentation = "stream"
    MaxPipe = 3
    MaxDepth = 2
PROPERTY SlotReturns
CHECK_DEADLOCK FALSE
