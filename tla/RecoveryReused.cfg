SPECIFICATION Spec
CONSTANTS
  MaxCommit = 3
  Budget <- Worn
  Forgettable = {"ops"}
  AppendsFirst = TRUE
INVARIANTS
  SegmentsAgree
