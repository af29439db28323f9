\* The live data fill less than half of a space, and the object asked for is
\* larger than what is left: gcalloc collects for ever.
SPECIFICATION Spec
CONSTANTS
    Roots = {"p"}
    Sizes = {2, 5}
    MinSpace = 6
    MaxObjects = 2
    MaxWords = 9
    MaxBlocked = 0
PROPERTY MakesRoom
CHECK_DEADLOCK FALSE
