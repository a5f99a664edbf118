SPECIFICATION Spec
CONSTANTS
    Threads = {"main", "dll"}
    Connections = {1}
    Functions = {"IS_QUIK_CONNECTED"}
    Setters = {"SET_CONNECTION_STATUS_CALLBACK"}
    Rogues = {}
    Overlapping = FALSE
    DllThread = TRUE
    MaxAsked = 2
    MaxSent = 1
INVARIANT WholeMessages
CHECK_DEADLOCK FALSE
