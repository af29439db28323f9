\* The terminal when a child that was stopped inside efork is resumed.
SPECIFICATION Spec
CONSTANTS
  p1 = p1
  p2 = p2
  p3 = p3
  Pids = {p1, p2}
  Shell = shell
  Interactive = TRUE
  Commands = {"job", "bg"}
  Faults = {}
  MaxPipe = 1
INVARIANT TtyNeverLate
