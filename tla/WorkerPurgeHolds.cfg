SPECIFICATION FairSpec
CONSTANTS
  Hooks = {h1, h2}
  Workers = {w1, w2}
  Draining = {}
  Dropping = {d1}
  Readers = {}
  NoOne = NoOne
  Budgets <- OnlyCalm
  PromptGiveUp = TRUE
  h1 = h1
  h2 = h2
  w1 = w1
  w2 = w2
  d1 = d1
\* Every process may end: hooks and commands are one-shot, a worker exits when idle.
CHECK_DEADLOCK FALSE
PROPERTIES
  WakeUpIsNeverLost
