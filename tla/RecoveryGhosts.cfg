SPECIFICATION Spec
CONSTANTS
  MaxCommit = 2
  Budget <- Losing
  Forgettable = {}
  AppendsFirst = TRUE
INVARIANTS
  OutputIsImage
