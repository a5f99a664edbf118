SPECIFICATION Spec
CONSTANTS
    Functions = {"IS_QUIK_CONNECTED", "ORDER_DATE"}
    Settable = {"CONNECTION_STATUS_CALLBACK", "TRADE_STATUS_CALLBACK"}
    Unsets = TRUE
    CallSites = {"idle", "callback", "event"}
    PriorRegistrations = {"CONNECTION_STATUS_CALLBACK"}
    Losable = TRUE
    Segmentation = "stream"
    MaxPipe = 3
    MaxDepth = 3
INVARIANTS
    FlagHasCaller
    ReplyHasCaller
CHECK_DEADLOCK FALSE
