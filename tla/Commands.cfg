SPECIFICATION Spec
CONSTANTS
    Threads = {"main", "callback"}
    Data <- MCData
    Calls <- MCCalls
    buffer = buffer
    NULL = NULL
INVARIANTS
    ServedAsCalled
    ResultKept
PROPERTIES
    CallsReturn
