\* A script: no terminal, no process groups but those of background children.
SPECIFICATION Spec
CONSTANTS
  p1 = p1
  p2 = p2
  p3 = p3
  Pids = {p1, p2, p3}
  Shell = shell
  Interactive = FALSE
  Commands = {"job", "pipe", "here", "wait", "background", "waitgroup", "waitany"}
  Faults = {"signal", "forkfail"}
  MaxPipe = 2
INVARIANT WaitHasStatus
SYMMETRY Symmetry
