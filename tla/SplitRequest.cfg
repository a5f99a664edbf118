SPECIFICATION FairSpec
CONSTANTS
    Threads = {"main"}
    Connections = {1}
    Functions = {"IS_QUIK_CONNECTED"}
    Setters = {}
    Rogues = {1}
    Overlapping = FALSE
    DllThread = FALSE
    MaxAsked = 1
    MaxSent = 1
PROPERTY RequestsServed
CHECK_DEADLOCK FALSE
