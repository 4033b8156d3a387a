SPECIFICATION Spec
CONSTANT Inputs <- MCInputs
INVARIANTS
  InBox
  HugsLine
PROPERTY StopsAtEnd
