SPECIFICATION FairSpec
CONSTANTS
    Functions = {"IS_QUIK_CONNECTED"}
    Settable = {"CONNECTION_STATUS_CALLBACK"}
    Unsets = FALSE
    CallSites = {"idle"}
    PriorRegistrations = {}
    Losable = FALSE
    Segmentation = "batch"
    MaxPipe = 3
    MaxDepth = 3
PROPERTY CallsReturn
CHECK_DEADLOCK FALSE
