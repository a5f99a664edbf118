SPECIFICATION FairSpec
CONSTANTS
    Functions = {"IS_QUIK_CONNECTED", "ORDER_DATE", "TRADE_KIND"}
    Settable = {"CONNECTION_STATUS_CALLBACK", "TRANSACTION_REPLY_CALLBACK", "ORDER_STATUS_CALLBACK", "TRADE_STATUS_CALLBACK"}
    Unsets = FALSE
    CallSites = {"idle"}
    PriorRegistrations = {}
    Losable = TRUE
    Segmentation = "stream"
    MaxPipe = 3
    MaxDepth = 2
INVARIANTS
    TypeOK
    
    ReadersApart
    FlagMeansWaiting
    ReplyHasCaller
    HandlerInstalled
PROPERTY TrafficFreesCalls
CHECK_DEADLOCK FALSE
