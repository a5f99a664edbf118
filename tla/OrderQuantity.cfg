SPECIFICATION Spec
CONSTANTS
    Base = 256
    FirstCode = 128
    Functions = {"ORDER_QTY"}
    Longs <- LongArgs
    Numbers <- Descriptors
    Texts <- TextArgs
    Flags = {1}
    Results = {0, 3}
    Doubles = {0, 5}
    Buffers <- Messages
    Events <- Reports
    MaxEvents = 1
INVARIANTS
    ArgsReachDll
CHECK_DEADLOCK FALSE
