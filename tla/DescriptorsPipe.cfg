\* The last member of a pipeline with a descriptor above 2 redirected.
SPECIFICATION Spec
CONSTANTS
  MaxFd = 10
  Users = {1, 3, 4}
  Closes = {3, 4}
  Ins = {0}
  Outs = {1}
  Numbered = TRUE
  Chained = FALSE
  MaxRegions = 3
  MaxForks = 1
INVARIANT ChildAsAsked
