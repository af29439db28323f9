\* A variable with a settor and one without; no risks.
SPECIFICATION Spec
CONSTANTS
  Names = {x, y}
  Settors = {x}
  Words = {w1, w2}
  Closures = {f}
  Nil = nil
  NoString = none
  Risks = {}
  MaxPush = 1
  MaxCalls = 2
INVARIANTS
  TypeOK
  StringsCurrent
  CommandsGetVariables
SYMMETRY Symmetry
