\* A collection moves an argument of %fsplit while it is being split.
CONSTANTS
    Calls <- TheCalls
    MaxIfs = 2
    MaxCalls = 3
INIT Init
NEXT Next
INVARIANT WordsWhenMoved
CHECK_DEADLOCK FALSE
