\* Two signals, delivered at any instruction.
SPECIFICATION Spec
CONSTANTS
  Sigs = {1, 2}
  MaxBlocked = 1
  MaxSends = 3
PROPERTIES
  CaughtIsThrown
