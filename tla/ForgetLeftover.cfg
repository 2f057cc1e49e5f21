SPECIFICATION Spec
CONSTANTS
  Uids = {u1}
  Records = {r1, r2}
  Budgets <- Leftover
\* Nothing has to be going on.
CHECK_DEADLOCK FALSE
INVARIANT
  StatusIsTrue
