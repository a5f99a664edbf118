SPECIFICATION Spec
CONSTANTS
    Base = 256
    FirstCode = 128
    Functions <- ApiFunctions
    Longs <- LongArgs
    Numbers <- Descriptors
    Texts <- TextArgs
    Flags = {0, 1}
    Results = {0, 3}
    Doubles = {0, 5}
    Buffers <- Messages
    Events <- Reports
    MaxEvents = 1
INVARIANTS
    ServerInStep
CHECK_DEADLOCK FALSE
