SPECIFICATION Spec
CONSTANTS
  Writers = {w1, w2}
  People = {ann, bob}
  Erasable = {bob}
  Page = 2
  MaxId = 4
  MaxLost = 1
  MaxTrims = 1
  MaxSeals = 1
INVARIANTS TypeOK OneChain OnlyOverrunsBreakTheChain AlarmIsReal
PROPERTIES ImplementsLog UnrecordedLossIsSeen
SYMMETRY Symmetry
CHECK_DEADLOCK FALSE
