SPECIFICATION Spec
CONSTANTS
  Writers = {w1, w2}
  People = {ann, bob}
  Erasable = {bob}
  Page = 2
  MaxId = 4
  MaxLost = 0
  MaxTrims = 2
  MaxSeals = 1
INVARIANTS EveryHoleIsAttested
SYMMETRY Symmetry
CHECK_DEADLOCK FALSE
