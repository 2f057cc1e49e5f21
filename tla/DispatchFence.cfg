SPECIFICATION FairSpec
CONSTANTS
  Senders = {s1, d}
  LagFirst = {}
  Detached = {d}
  Readers = {r}
  Writers = {w1}
  Restorer = Restorer
  NoOne = NoOne
  Pieces = {a}
  Rulesets = {v1}
  ByHand = {}
  LosesMasks = FALSE
  a = a
  d = d
  s1 = s1
  r = r
  v1 = v1
  w1 = w1
INVARIANTS
  AnswersWithoutTaken
PROPERTIES
  KeepsTheFence
  HoldsEnd
  RestoreComes
