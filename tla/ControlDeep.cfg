\* The depth of evaluation is used up when a settor runs: the throw finds no handler.
SPECIFICATION Spec
CONSTANTS
    Worlds <- Deep
    MaxFrames = 5
INVARIANT HandlerFound
CHECK_DEADLOCK FALSE
