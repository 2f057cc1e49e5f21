SPECIFICATION AnySpec
CONSTANTS
  Uids = {u1}
  Records = {r1}
  Budgets <- ForgetBudgets
  h1 = h1
  h2 = h2
  h3 = h3
  c1 = c1
  c2 = c2
\* A part may stop: the hooks' writes, the windows and the chances are used up.
CHECK_DEADLOCK FALSE
INVARIANTS
  Typed
  StatusIsTrue
  ExpiredIsGone
  ClaimsStay
  OldestFirst
  PaidWithinCap
  MarkerIsLatest
  AlarmIsTrue
  StuckIsFound
  ShownStands
  CurrentAsRebuilt
PROPERTIES
  ForgottenIsGone
  BatchIsWhole
  BatchEnds
  HoldIsTheOwners
  SkippedAfterThree
  WindowEnds
