SPECIFICATION Spec
CONSTANTS
  Pids = {1, 2, 3}
  Cells = {c1, c2, c3}
  Null = null
  Recycle = FALSE
  Names <- FourNames
  Values = {"v", "w"}
  Hashes <- FourHashes
  MaxSize = 8
  Roots = {"p", "q"}
  Sizes = {2}
  MinSpace = 4
  MaxObjects = 3
  MaxWords = 6
  MaxBlocked = 1
  MaxFd = 11
  Users = {3, 4}
  Closes = {3, 4}
  Ins = {0}
  Outs = {1}
  Numbered = FALSE
  Chained = FALSE
  MaxRegions = 3
  MaxForks = 2
  Worlds <- Orderly
  MaxFrames = 4
INVARIANTS
  WellLinked
  WalkInUse
  Faithful
  AsAsked
  NewfdUnused
  HandlersLive
  StacksMatch
PROPERTIES
  ImplementsSequence
  ImplementsMap
  MakesRoom
  ExceptionKept
  ExecIsLast
\* A program may end, and a part's bounds may be reached.
CHECK_DEADLOCK FALSE
