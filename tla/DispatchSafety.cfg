SPECIFICATION Spec
CONSTANTS
  Senders = {s1, m}
  LagFirst = {m}
  Detached = {}
  Readers = {}
  Writers = {w1, w2}
  Restorer = Restorer
  NoOne = NoOne
  Pieces = {a}
  Rulesets = {v1, v2}
  ByHand = {v2}
  LosesMasks = TRUE
  a = a
  s1 = s1
  m = m
  v1 = v1
  v2 = v2
  w1 = w1
  w2 = w2
SYMMETRY Symmetry
INVARIANTS
  DroppedStaysDropped
  SendsCaughtUp
  NothingTakenLeaves
  SentUnderTheRules
  MasksUnderTheRules
