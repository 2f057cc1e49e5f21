SPECIFICATION Spec
CONSTANTS
  Hooks = {h1, h2}
  Workers = {w1, w2}
  Draining = {c1}
  Dropping = {}
  Readers = {r1}
  NoOne = NoOne
  Budgets <- OnlyRough
  PromptGiveUp = FALSE
  h1 = h1
  h2 = h2
  w1 = w1
  w2 = w2
  c1 = c1
  r1 = r1
SYMMETRY Symmetry
\* Every process may end: hooks and commands are one-shot, a worker exits when idle.
CHECK_DEADLOCK FALSE
INVARIANTS
  OneAtATime
  KilledIsReported
  WaitIsNoFailure
  PaidCallIsSettled
