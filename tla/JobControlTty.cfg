\* The terminal of a pipeline whose last member exits first.
SPECIFICATION Spec
CONSTANTS
  p1 = p1
  p2 = p2
  p3 = p3
  Pids = {p1, p2}
  Shell = shell
  Interactive = TRUE
  Commands = {"pipe"}
  Faults = {}
  MaxPipe = 2
INVARIANT LiveJobKeepsTty
