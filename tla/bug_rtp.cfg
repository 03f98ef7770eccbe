SPECIFICATION Spec
CONSTANTS
  N = 7
  SeqRange = 64
  MaxSent = 12
  Numberings <- OnlyStraight
  Reorder = 0
  MaxLost = 2
  LossGap = 1
  MaxRepeat = 0
  MaxLate = 0
  MaxBad = 0
INVARIANT InOrder
