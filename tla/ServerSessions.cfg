SPECIFICATION FairSpec
CONSTANTS
    Threads = {"main"}
    Connections = {1, 2}
    Functions = {"IS_QUIK_CONNECTED"}
    Setters = {"SET_CONNECTION_STATUS_CALLBACK", "TRANSACTION_REPLY_CALLBACK", "ORDER_STATUS_CALLBACK", "UNSUBSCRIBE_TRADES"}
    Rogues = {1}
    Overlapping = FALSE
    DllThread = FALSE
    MaxAsked = 2
    MaxSent = 1
INVARIANTS
    TypeOK
    ConnectionsAlive
    MessagesInStep
    NeverSpins
    WholeMessages
PROPERTIES
    Implements
    WholeRequestsServed
CHECK_DEADLOCK FALSE
