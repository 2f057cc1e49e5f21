SPECIFICATION Spec
CONSTANTS
  Senders = {d}
  LagFirst = {}
  Detached = {d}
  Readers = {}
  Writers = {w1}
  Restorer = Restorer
  NoOne = NoOne
  Pieces = {a, b}
  Rulesets = {v1}
  ByHand = {}
  LosesMasks = TRUE
  a = a
  b = b
  d = d
  v1 = v1
  w1 = w1
INVARIANTS
  NothingTakenLeaves
