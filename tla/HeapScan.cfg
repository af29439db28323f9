\* The copies fill two new spaces: what scanning the older one copies into the front
\* one, after that has been scanned, is not scanned any more.
SPECIFICATION Spec
CONSTANTS
    Roots = {"p", "q"}
    Sizes = {2, 3}
    MinSpace = 4
    MaxObjects = 3
    MaxWords = 7
    MaxBlocked = 1
INVARIANT NoneDangling
