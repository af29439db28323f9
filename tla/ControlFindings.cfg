\* The command of readfrom takes the place of the shell before readfrom has waited;
\* writeto ends by return: its own handler is gone, and it pops another that it never pushed.
SPECIFICATION Spec
CONSTANTS
    Worlds <- Orderly
    MaxFrames = 5
INVARIANT OwnHandler
PROPERTY ExecLeavesNothing
CHECK_DEADLOCK FALSE
