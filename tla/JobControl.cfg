\* An interactive session in which nothing goes wrong.
SPECIFICATION Spec
CONSTANTS
  p1 = p1
  p2 = p2
  p3 = p3
  Pids = {p1, p2}
  Shell = shell
  Interactive = TRUE
  Commands = {"job", "pipe", "fg", "bg", "wait", "background", "waitgroup", "waitany"}
  Faults = {}
  MaxPipe = 2
INVARIANTS
  TypeOK
  RecordsMatchKernel
  StoppedIsBackground
  TtyAtPrompt
  NoForegroundLeft
  JobHoldsTty
  WaitHasStatus
PROPERTY
  BackgroundReaped
