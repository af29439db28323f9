\* An interactive session with signals to the shell and failing forks.
SPECIFICATION Spec
CONSTANTS
  p1 = p1
  p2 = p2
  p3 = p3
  Pids = {p1, p2}
  Shell = shell
  Interactive = TRUE
  Commands = {"job", "pipe", "here", "fg", "bg", "wait", "background", "waitgroup", "waitany"}
  Faults = {"signal", "forkfail", "late"}
  MaxPipe = 2
INVARIANTS
  NoUnrecordedChild
  ForegroundWaitAwake
SYMMETRY Symmetry
