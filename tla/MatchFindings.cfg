\* An unquoted class of four characters: its end is read behind the array UNQUOTED;
\* extraction with a pattern without wildcards before another, and with a star before a star.
CONSTANTS
    Subjects <- Words
    Patterns <- Doubtful
    Ord <- Order
    Places <- Behind
INIT Init
NEXT Next
INVARIANTS
    TildeMeans
    ExtractMovesOn
    ExtractAsserts
CHECK_DEADLOCK FALSE
