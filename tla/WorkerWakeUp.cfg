SPECIFICATION FairSpec
CONSTANTS
  Hooks = {h1, h2}
  Workers = {w1, w2}
  Draining = {c1}
  Dropping = {}
  Readers = {}
  NoOne = NoOne
  Budgets <- EachOfThem
  PromptGiveUp = TRUE
  h1 = h1
  h2 = h2
  w1 = w1
  w2 = w2
  c1 = c1
\* Every process may end: hooks and commands are one-shot, a worker exits when idle.
CHECK_DEADLOCK FALSE
INVARIANTS
  NoLostWakeUp
PROPERTIES
  WakeUpIsNeverLost
