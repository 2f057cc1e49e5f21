SPECIFICATION FairSpec
CONSTANTS
  MaxCommit = 2
  Budget <- Rough
  Forgettable = {}
  AppendsFirst = FALSE
INVARIANTS
  OneStore
  OutputIsImage
PROPERTIES
  HealsItself
