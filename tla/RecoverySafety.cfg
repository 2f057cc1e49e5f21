SPECIFICATION EitherSpec
CONSTANTS
  MaxCommit = 3
  Budget <- Asked
  Forgettable = {"records"}
  AppendsFirst = TRUE
INVARIANTS
  TypeOK
  SegmentsAgree
  NothingUnbacked
  ForgetsHold
  CuratedIsShown
