\* wait without a pid in an interactive session.
SPECIFICATION Spec
CONSTANTS
  p1 = p1
  p2 = p2
  p3 = p3
  Pids = {p1, p2}
  Shell = shell
  Interactive = TRUE
  Commands = {"job", "background", "waitany"}
  Faults = {}
  MaxPipe = 1
INVARIANT WaitAnyFindsChild
