\* A printed word with a backslash before a quote, read back; and a script of which
\* a read is cut off by a signal once it has taken a line.
CONSTANTS
    Sources <- Doubtful
    MAXUNGET = 2
INIT Init
NEXT Next
INVARIANTS
    RoundTrip
    LosesNothing
CHECK_DEADLOCK FALSE
