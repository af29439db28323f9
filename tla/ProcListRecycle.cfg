\* Pids are recycled while the record of the dead child is still listed.
SPECIFICATION Spec
CONSTANTS
  Pids = {1, 2, 3}
  Cells = {c1, c2, c3}
  Null = null
  Recycle = TRUE
INVARIANT KnownListed
