\* A variable with a settor and one without; the settor of a local binding runs commands.
SPECIFICATION Spec
CONSTANTS
  Names = {x, y}
  Settors = {x}
  Words = {w1, w2}
  Closures = {f}
  Nil = nil
  NoString = none
  Risks = {"exec"}
  MaxPush = 1
  MaxCalls = 2
INVARIANT CommandsGetVariables
SYMMETRY Symmetry
