SPECIFICATION Spec
CONSTANTS
  N = 8
  SeqRange = 64
  MaxSent = 14
  Numberings <- AllNumberings
  Reorder = 1
  MaxLost = 2
  LossGap = 8
  MaxRepeat = 1
  MaxLate = 14
  MaxBad = 5
INVARIANTS TypeOK InOrder OnlyLostSkipped InReach RingInOrder WaitsCounted
