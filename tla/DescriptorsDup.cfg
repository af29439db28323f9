\* fdmap looks a real descriptor up again, as if it were a number of the user.
SPECIFICATION Spec
CONSTANTS
  MaxFd = 10
  Users = {1, 3, 4}
  Closes = {3, 4}
  Ins = {0}
  Outs = {1}
  Numbered = FALSE
  Chained = TRUE
  MaxRegions = 3
  MaxForks = 1
INVARIANT FdmapSees
